---- MODULE Spec2Model ----
(***************************************************************************)
(* Model of src/ai_service.py: the UserProfile normaliser, the size        *)
(* classifier's decision chain, the measurement predictor's entry point    *)
(* and the model registry.                                                 *)
(*                                                                         *)
(* Units.  Lengths and weights are integers in tenths (152.0 cm = 1520),   *)
(* so that round(x, 1) is exact; intermediate products are in thousandths. *)
(* Confidences are integers in thousandths (0.85 = 850).                   *)
(***************************************************************************)
EXTENDS Integers, Sequences, FiniteSets, TLC

\* Python's None for an Optional[float] field: a value no measurement takes.
None == -1

Max(a, b) == IF a >= b THEN a ELSE b
Min(a, b) == IF a <= b THEN a ELSE b

(***************************************************************************)
(* VALIDATION_BOUNDS, in dict order (the order _validate_bounds iterates). *)
(* Measurements in tenths of a unit, age in years.                         *)
(***************************************************************************)
BOUND_FIELDS == << "height_cm", "weight_kg", "bust_cm", "waist_cm", "hip_cm",
                   "shoulder_cm", "sleeve_length_cm", "age",
                   "dupatta_length_cm", "skirt_length_cm", "top_length_cm" >>

VALIDATION_BOUNDS ==
    [ height_cm         |-> << 800, 2000 >>,
      weight_kg         |-> << 100, 1200 >>,
      bust_cm           |-> << 400, 1400 >>,
      waist_cm          |-> << 400, 1400 >>,
      hip_cm            |-> << 400, 1600 >>,
      shoulder_cm       |-> << 280, 500 >>,
      sleeve_length_cm  |-> << 150, 650 >>,
      age               |-> << 3, 18 >>,
      dupatta_length_cm |-> << 1800, 2800 >>,
      skirt_length_cm   |-> << 250, 800 >>,
      top_length_cm     |-> << 350, 750 >> ]

FEMALE_CORE_FEATURES == { "bust_cm", "waist_cm", "hip_cm", "shoulder_cm", "sleeve_length_cm" }
MALE_CORE_FEATURES   == { "chest_cm", "waist_cm", "shoulder_cm", "sleeve_length_cm" }

\* The measurement fields a caller may pass to the constructor.
MEASUREMENT_FIELDS == { "bust_cm", "waist_cm", "hip_cm", "shoulder_cm", "sleeve_length_cm",
                        "top_length_cm", "skirt_length_cm", "dupatta_length_cm", "chest_cm" }

validate_gender(gender) == gender \in { "M", "F" }

\* A range check whose upper end is exclusive (an off-by-one in the comparison).
InBounds_exclusive(field, value) ==
    /\ VALIDATION_BOUNDS[field][1] <= value
    /\ value < VALIDATION_BOUNDS[field][2]

InBounds(field, value) ==
    /\ VALIDATION_BOUNDS[field][1] <= value
    /\ value <= VALIDATION_BOUNDS[field][2]

(***************************************************************************)
(* round(x, 1) of a value given in thousandths, result in tenths: the      *)
(* nearest tenth.  On an exact decimal tie the float's binary error        *)
(* decides in Python; the model sends a tie to the even neighbour, and the *)
(* argument sets below produce no tie.                                     *)
(***************************************************************************)
Round1(milli) ==
    LET q == milli \div 100
        r == milli % 100
    IN  IF r > 50 THEN q + 1
        ELSE IF r < 50 THEN q
        ELSE IF q % 2 = 0 THEN q ELSE q + 1

\* round(max(lo, min(base, hi)), 1) with lo, hi in tenths and base in thousandths.
ClampRound(base, lo, hi) == Round1(Max(lo * 100, Min(base, hi * 100)))

Clamped(field, base) ==
    ClampRound(base, VALIDATION_BOUNDS[field][1], VALIDATION_BOUNDS[field][2])

estimate_bust_from_height_weight(p) ==
    LET base == p.height_cm * 52 + p.weight_kg * 40
        adj  == IF p.age >= 12 THEN (p.age - 12) * 1200 ELSE 0
    IN  Clamped("bust_cm", base + adj)

estimate_waist_from_height_weight(p) ==
    Clamped("waist_cm", p.height_cm * 42 + p.weight_kg * 30)

estimate_hip_from_height_weight(p) ==
    LET base == p.height_cm * 54 + p.weight_kg * 35
        adj  == IF p.gender = "F" /\ p.age >= 10 THEN 2000 ELSE 0
    IN  Clamped("hip_cm", base + adj)

estimate_chest_from_height_weight(p) ==
    ClampRound(p.height_cm * 52 + p.weight_kg * 40, 400, 1400)

estimate_shoulder_from_height(p) == Clamped("shoulder_cm", p.height_cm * 25)

estimate_sleeve_from_height(p) == Clamped("sleeve_length_cm", p.height_cm * 32)

(***************************************************************************)
(* UserProfile._validate_bounds: the first bounded field, in dict order,   *)
(* whose non-None value is outside its range raises ValueError naming the  *)
(* field, the value and the bounds.  0 = no field is out of range.         *)
(***************************************************************************)
OutOfRange(p, field) == p[field] # None /\ ~InBounds(field, p[field])

FirstViolation(p) ==
    IF \E i \in 1..Len(BOUND_FIELDS) : OutOfRange(p, BOUND_FIELDS[i])
    THEN CHOOSE i \in 1..Len(BOUND_FIELDS) :
            /\ OutOfRange(p, BOUND_FIELDS[i])
            /\ \A j \in 1..(i - 1) : ~OutOfRange(p, BOUND_FIELDS[j])
    ELSE 0

NoError == [ field |-> "", value |-> None, bounds |-> << None, None >> ]

validate_bounds(p) ==
    LET i == FirstViolation(p)
    IN  IF i = 0 THEN NoError
        ELSE [ field  |-> BOUND_FIELDS[i],
               value  |-> p[BOUND_FIELDS[i]],
               bounds |-> VALIDATION_BOUNDS[BOUND_FIELDS[i]] ]

(***************************************************************************)
(* UserProfile._derive_missing_measurements.  The assignments run in the   *)
(* source's order; waist_to_hip_drop reads the waist and hip just set.     *)
(***************************************************************************)
DeriveFemale(p) ==
    LET p1 == [ p  EXCEPT !.bust_cm =
                    IF p.bust_cm = None /\ p.chest_cm # None THEN p.chest_cm
                    ELSE IF p.bust_cm = None THEN estimate_bust_from_height_weight(p)
                    ELSE p.bust_cm ]
        p2 == [ p1 EXCEPT !.waist_cm =
                    IF p1.waist_cm = None THEN estimate_waist_from_height_weight(p1)
                    ELSE p1.waist_cm ]
        p3 == [ p2 EXCEPT !.hip_cm =
                    IF p2.hip_cm = None THEN estimate_hip_from_height_weight(p2)
                    ELSE p2.hip_cm ]
        p4 == [ p3 EXCEPT !.shoulder_cm =
                    IF p3.shoulder_cm = None THEN estimate_shoulder_from_height(p3)
                    ELSE p3.shoulder_cm ]
        p5 == [ p4 EXCEPT !.sleeve_length_cm =
                    IF p4.sleeve_length_cm = None THEN estimate_sleeve_from_height(p4)
                    ELSE p4.sleeve_length_cm ]
    IN  [ p5 EXCEPT !.waist_to_hip_drop =
            IF p5.waist_to_hip_drop = None /\ p5.waist_cm # 0 /\ p5.hip_cm # 0
            THEN p5.hip_cm - p5.waist_cm
            ELSE p5.waist_to_hip_drop ]

DeriveMale(p) ==
    LET p1 == [ p  EXCEPT !.chest_cm =
                    IF p.chest_cm = None THEN estimate_chest_from_height_weight(p)
                    ELSE p.chest_cm ]
        p2 == [ p1 EXCEPT !.waist_cm =
                    IF p1.waist_cm = None THEN estimate_waist_from_height_weight(p1)
                    ELSE p1.waist_cm ]
        p3 == [ p2 EXCEPT !.shoulder_cm =
                    IF p2.shoulder_cm = None THEN estimate_shoulder_from_height(p2)
                    ELSE p2.shoulder_cm ]
    IN  [ p3 EXCEPT !.sleeve_length_cm =
            IF p3.sleeve_length_cm = None THEN estimate_sleeve_from_height(p3)
            ELSE p3.sleeve_length_cm ]

\* A derivation that sends every profile down the male branch.
derive_missing_measurements_male_only(p) == DeriveMale(p)

derive_missing_measurements(p) ==
    IF p.gender = "F" THEN DeriveFemale(p) ELSE DeriveMale(p)

(***************************************************************************)
(* UserProfile.__post_init__: validate, then derive.  The result is the    *)
(* constructed profile, or the error raised (and then no profile exists).  *)
(***************************************************************************)
post_init(r) ==
    LET e == validate_bounds(r)
    IN  IF e.field # ""
        THEN [ raised |-> TRUE,  error |-> e,       profile |-> r ]
        ELSE [ raised |-> FALSE, error |-> NoError, profile |-> derive_missing_measurements(r) ]

(***************************************************************************)
(* EnhancedSizeClassifier.                                                 *)
(***************************************************************************)
size_order == << "xs", "small-", "small", "small+", "medium", "medium+",
                 "large", "large+", "xl" >>

IndexOf(seq, x) == CHOOSE i \in 1..Len(seq) : seq[i] = x
Contains(seq, x) == \E i \in 1..Len(seq) : seq[i] = x

\* _size_up / _size_down: one step along size_order, held at the ends; a code
\* that is not on the ladder (list.index raises ValueError) is returned as is.
size_up(size_code) ==
    IF Contains(size_order, size_code)
    THEN size_order[Min(IndexOf(size_order, size_code) + 1, Len(size_order))]
    ELSE size_code

size_down(size_code) ==
    IF Contains(size_order, size_code)
    THEN size_order[Max(IndexOf(size_order, size_code) - 1, 1)]
    ELSE size_code

(***************************************************************************)
(* The database as one request sees it: whether get_cnx() connects, what   *)
(* fn_best_size_id does ("id": returns size_id, "null": returns NULL,      *)
(* "error": raises mysql.connector.Error) and what the size_chart lookup   *)
(* does ("row": a row holding code, "empty": no row, "error": raises).     *)
(***************************************************************************)
DbBehaviours ==
    { [ cnx |-> FALSE, fn |-> "error", size_id |-> 0, chart |-> "error", code |-> "" ],
      [ cnx |-> TRUE,  fn |-> "error", size_id |-> 0, chart |-> "empty", code |-> "" ],
      [ cnx |-> TRUE,  fn |-> "null",  size_id |-> 0, chart |-> "row",   code |-> "small" ],
      [ cnx |-> TRUE,  fn |-> "id",    size_id |-> 8, chart |-> "row",   code |-> "large+" ],
      [ cnx |-> TRUE,  fn |-> "id",    size_id |-> 9, chart |-> "empty", code |-> "" ],
      [ cnx |-> TRUE,  fn |-> "id",    size_id |-> 7, chart |-> "error", code |-> "" ] }

\* sql_rec is None when compare_with_sql is false.
NoSql == [ size_code |-> "", size_id |-> None, confidence |-> 0,
           method |-> "none", source |-> "", reasoning |-> "" ]

\* bmi < t, with bmi = weight_kg / (height_cm / 100) ** 2 and both in tenths.
BmiBelow(p, t) == p.weight_kg * 100000 < t * p.height_cm * p.height_cm

\* The inner except branch of get_sql_recommendation (lines 1991-2022).
BmiRule(p) ==
    LET pick == IF BmiBelow(p, 16) THEN << "xs", 1 >>
                ELSE IF BmiBelow(p, 18) THEN << "small", 2 >>
                ELSE IF BmiBelow(p, 22) THEN << "medium", 3 >>
                ELSE IF BmiBelow(p, 25) THEN << "large", 4 >>
                ELSE << "xl", 5 >>
    IN  [ size_code |-> pick[1], size_id |-> pick[2], confidence |-> 750,
          method |-> "sql_rule_fallback", source |-> "rule",
          reasoning |-> "BMI-based calculation" ]

\* The outer except branch of get_sql_recommendation (lines 2024-2044).
AgeFallback(p) ==
    [ size_code |-> IF p.age <= 8 THEN "small"
                    ELSE IF p.age <= 12 THEN "medium" ELSE "large",
      size_id |-> 0, confidence |-> 600,
      method |-> "age_fallback", source |-> "rule",
      reasoning |-> "Age-based fallback recommendation" ]

\* The size function's own answer (lines 1969-1985).
DbFunction(p, db) ==
    [ size_code |-> IF db.chart = "row" THEN db.code ELSE "medium",
      size_id |-> db.size_id, confidence |-> 850,
      method |-> "sql_function", source |-> "db",
      reasoning |-> "Database function" ]

get_sql_recommendation(p, db) ==
    IF ~db.cnx THEN AgeFallback(p)
    ELSE IF db.fn = "error" THEN BmiRule(p)
    ELSE IF db.fn = "null" \/ db.size_id = 0 THEN BmiRule(p)
    ELSE IF db.chart = "error" THEN BmiRule(p)
    ELSE DbFunction(p, db)

\* _get_size_id: the size_chart row's id, 0 without a row, and the built-in
\* mapping (default 3) when the database cannot be asked.
size_mapping(size_code) ==
    IF size_code = "xs" THEN 1
    ELSE IF size_code = "small" THEN 2
    ELSE IF size_code = "medium" THEN 3
    ELSE IF size_code = "large" THEN 4
    ELSE IF size_code = "xl" THEN 5
    ELSE 3

get_size_id(size_code, db) ==
    IF db.cnx /\ db.chart = "row" THEN db.size_id
    ELSE IF db.cnx /\ db.chart = "empty" THEN 0
    ELSE size_mapping(size_code)

(***************************************************************************)
(* A fitted estimator, as far as one request sees it: the class the        *)
(* pipeline predicts for the request's features and the calibrated model's *)
(* class probabilities (thousandths) in classes_ order.                    *)
(***************************************************************************)
NoModel == [ prediction |-> "", probs |-> << >> ]

\* Classes as in the synthetic corpus (generate_synthetic_training_data).
EstSynthetic ==
    [ prediction |-> "medium",
      probs |-> << << "large", 250 >>, << "medium", 600 >>, << "small", 100 >>,
                   << "xl", 40 >>, << "xs", 10 >> >> ]

\* Classes as in a size_chart that holds half sizes.
EstHalfSizes ==
    [ prediction |-> "small",
      probs |-> << << "medium", 200 >>, << "small", 500 >>, << "small+", 300 >> >> ]

\* A model whose best class is the top of the ladder.
EstTop ==
    [ prediction |-> "large",
      probs |-> << << "large", 100 >>, << "xl", 900 >> >> ]

\* max(prob_dict, key=prob_dict.get): the first entry of greatest probability.
BestIndex(probs) ==
    CHOOSE i \in 1..Len(probs) :
        \A j \in 1..Len(probs) :
            \/ probs[j][2] < probs[i][2]
            \/ (probs[j][2] = probs[i][2] /\ j >= i)

RemoveAt(seq, i) == SubSeq(seq, 1, i - 1) \o SubSeq(seq, i + 1, Len(seq))

\* sorted(prob_dict.items(), key=lambda x: x[1], reverse=True): stable.
RECURSIVE SortedDesc(_)
SortedDesc(probs) ==
    IF probs = << >> THEN << >>
    ELSE LET i == BestIndex(probs)
         IN  << probs[i] >> \o SortedDesc(RemoveAt(probs, i))

\* The entries [1:4] of the sorted list.
Alternatives(probs) ==
    LET srt == SortedDesc(probs)
    IN  SubSeq(srt, 2, Min(4, Len(srt)))

Step(name, impact) == [ step_name |-> name, confidence_impact |-> impact ]

\* Lines 1670-1673: the model chosen for a profile.  The name is built as
\* gender.lower() followed by "ale": "male" for M, "fale" for F, and a name
\* that is no key of self.models is replaced by "universal".
SelectModel(p, mdls) ==
    LET byGender == IF p.gender \in { "F", "M" }
                    THEN (IF p.gender = "F" THEN "fale" ELSE "male")
                    ELSE "universal"
    IN  IF byGender \notin DOMAIN mdls THEN "universal"
        ELSE IF mdls[byGender] = NoModel THEN "universal" ELSE byGender

\* Lines 1750-1802: best size, confidence, alternatives and the step recorded.
Calibrate(est, hasCalibrated, calOK) ==
    IF hasCalibrated /\ calOK
    THEN LET i == BestIndex(est.probs)
         IN  [ best_size |-> est.probs[i][1], confidence |-> est.probs[i][2],
               alternatives |-> Alternatives(est.probs),
               step |-> Step("confidence_calibration", est.probs[i][2]) ]
    ELSE [ best_size |-> est.prediction, confidence |-> 700,
           alternatives |-> << >>,
           step |-> Step(IF hasCalibrated THEN "confidence_fallback"
                         ELSE "default_confidence", 700) ]

\* A fit-preference adjustment that applies 'snug' at every age.
FitAdjust_snug_any_age(p, c) ==
    IF p.fit_preference = "loose"
    THEN [ c EXCEPT !.best_size = size_up(c.best_size),
                    !.confidence = (c.confidence * 9) \div 10,
                    !.step = Step("loose_fit_adjustment", -100) ]
    ELSE IF p.fit_preference = "snug"
    THEN [ c EXCEPT !.best_size = size_down(c.best_size),
                    !.confidence = (c.confidence * 9) \div 10,
                    !.step = Step("snug_fit_adjustment", -100) ]
    ELSE [ c EXCEPT !.step = Step("", 0) ]

\* Lines 1804-1831: the fit-preference adjustment of (best_size, confidence).
FitAdjust(p, c) ==
    IF p.fit_preference = "loose"
    THEN [ c EXCEPT !.best_size = size_up(c.best_size),
                    !.confidence = (c.confidence * 9) \div 10,
                    !.step = Step("loose_fit_adjustment", -100) ]
    ELSE IF p.fit_preference = "snug" /\ p.age >= 10
    THEN [ c EXCEPT !.best_size = size_down(c.best_size),
                    !.confidence = (c.confidence * 9) \div 10,
                    !.step = Step("snug_fit_adjustment", -100) ]
    ELSE [ c EXCEPT !.step = Step("", 0) ]

\* An ensemble tier that returns the database's size whenever a baseline
\* exists (a tier that lets the comparison value leak into the answer).
EnsembleResult_prefers_sql(p, mdls, calibrated, calOK, steps, sql_rec, db) ==
    LET name == SelectModel(p, mdls)
        cal  == Calibrate(mdls[name], name \in calibrated, calOK)
        adj  == FitAdjust(p, cal)
    IN  [ kind |-> "returned", error |-> "",
          size_code |-> IF sql_rec # NoSql THEN sql_rec.size_code ELSE adj.best_size,
          size_id |-> get_size_id(adj.best_size, db),
          confidence |-> adj.confidence,
          alternatives |-> adj.alternatives,
          method_used |-> "ai_" \o name,
          sql_recommendation |-> sql_rec,
          steps |-> steps ]

\* What the ensemble tier computes for a profile when nothing fails
\* (lines 1716-1907, before the explanation is logged).
EnsembleResult(p, mdls, calibrated, calOK, steps, sql_rec, db) ==
    LET name == SelectModel(p, mdls)
        cal  == Calibrate(mdls[name], name \in calibrated, calOK)
        adj  == FitAdjust(p, cal)
        st   == steps \o << Step("base_prediction", 800), cal.step >>
                      \o (IF adj.step.step_name = "" THEN << >> ELSE << adj.step >>)
    IN  [ kind |-> "returned", error |-> "",
          size_code |-> adj.best_size,
          size_id |-> get_size_id(adj.best_size, db),
          confidence |-> adj.confidence,
          alternatives |-> adj.alternatives,
          method_used |-> "ai_" \o name,
          sql_recommendation |-> sql_rec,
          steps |-> st ]

\* A recommendation built from sql_rec (lines 1641-1662, 1687-1708, 1917-1944).
SqlResult(sql_rec, method, steps) ==
    [ kind |-> "returned", error |-> "",
      size_code |-> sql_rec.size_code, size_id |-> sql_rec.size_id,
      confidence |-> sql_rec.confidence, alternatives |-> << >>,
      method_used |-> method, sql_recommendation |-> sql_rec, steps |-> steps ]

Raised(error, sql_rec, steps) ==
    [ kind |-> "raised", error |-> error,
      size_code |-> "", size_id |-> None, confidence |-> 0, alternatives |-> << >>,
      method_used |-> "", sql_recommendation |-> sql_rec, steps |-> steps ]

\* A tier's result once log_size_explanation has run: the open() of the
\* explanation file raises when the write fails, and so does the caller.
Logged(result, logOK) ==
    IF logOK THEN result
    ELSE Raised("OSError", result.sql_recommendation, result.steps)

\* An except branch that answers "medium" when there is no sql_rec to fall
\* back on, instead of re-raising.
ErrorFallback_default(error, sql_rec, steps, logOK) ==
    IF sql_rec # NoSql
    THEN Logged(SqlResult(sql_rec, "sql_error_fallback",
                          steps \o << Step("error_fallback", -200) >>), logOK)
    ELSE [ kind |-> "returned", error |-> "",
           size_code |-> "medium", size_id |-> 3, confidence |-> 500,
           alternatives |-> << >>, method_used |-> "sql_error_fallback",
           sql_recommendation |-> sql_rec, steps |-> steps ]

\* An except branch that starts a new trace for its answer instead of
\* extending the one built so far.
ErrorFallback_fresh_trace(error, sql_rec, steps, logOK) ==
    IF sql_rec # NoSql
    THEN Logged(SqlResult(sql_rec, "sql_error_fallback",
                          << Step("error_fallback", -200) >>), logOK)
    ELSE Raised(error, sql_rec, steps)

\* The except branch of lines 1914-1950, entered with the exception `error`.
ErrorFallback(error, sql_rec, steps, logOK) ==
    IF sql_rec # NoSql
    THEN Logged(SqlResult(sql_rec, "sql_error_fallback",
                          steps \o << Step("error_fallback", -200) >>), logOK)
    ELSE Raised(error, sql_rec, steps)

(***************************************************************************)
(* EnhancedSizeClassifier.predict_with_confidence.  predictOK: whether     *)
(* model.predict returns; calOK: whether predict_proba of the calibrated   *)
(* model returns; logs[1], logs[2]: whether the first and the second write *)
(* of an explanation file succeed.                                         *)
(***************************************************************************)
predict_with_confidence(p, compare_with_sql, db, trained, mdls, calibrated, predictOK, calOK, logs) ==
    LET sql_rec == IF compare_with_sql THEN get_sql_recommendation(p, db) ELSE NoSql
        steps0  == IF compare_with_sql
                   THEN << Step("sql_baseline", sql_rec.confidence) >> ELSE << >>
        name    == SelectModel(p, mdls)
        steps1  == steps0 \o << Step("model_selection", 100) >>
        steps2  == steps1 \o << Step("feature_extraction", 100) >>
        ai      == EnsembleResult(p, mdls, calibrated, calOK, steps2, sql_rec, db)
    IN  IF ~trained
        THEN IF sql_rec # NoSql
             THEN Logged(SqlResult(sql_rec, "sql_fallback", steps0), logs[1])
             ELSE Raised("RuntimeError", sql_rec, steps0)
        ELSE IF mdls[name] = NoModel
        THEN IF sql_rec # NoSql
             THEN Logged(SqlResult(sql_rec, "sql_fallback", steps1), logs[1])
             ELSE Raised("RuntimeError", sql_rec, steps1)
        ELSE IF ~predictOK
        THEN ErrorFallback("PredictError", sql_rec, steps2, logs[1])
        ELSE IF logs[1] THEN ai
        ELSE ErrorFallback("OSError", sql_rec, ai.steps, logs[2])

(***************************************************************************)
(* The measurement predictor.  Measurement values before rounding are      *)
(* integers in units of 10^-5 cm (a profile field in tenths of a cm times  *)
(* Scale); value_cm is in hundredths of a cm after round(x, 2);            *)
(* confidences are in thousandths.                                         *)
(***************************************************************************)
Scale == 10000

\* round(x, 2) of a value in 10^-5 cm, in hundredths of a cm.  Exact decimal
\* ties go to the even hundredth; the argument sets produce none, and
\* Python's float ties can fall either way.
Round2(x) ==
    LET q == x \div 1000
        r == x % 1000
    IN  IF r < 500 THEN q
        ELSE IF r > 500 THEN q + 1
        ELSE IF q % 2 = 0 THEN q ELSE q + 1

\* GENDER_SPECIFIC_MEASUREMENTS (lines 123-136): per gender, the garment
\* types with rules of their own and the measurements listed for them.
GENDER_SPECIFIC_MEASUREMENTS ==
    [ F |-> [ skirt |-> { "waist_cm", "hip_cm", "skirt_length_cm", "waist_to_hip_drop" },
              dupatta |-> { "dupatta_length_cm", "dupatta_width_cm" },
              kurti |-> { "bust_cm", "waist_cm", "hip_cm", "top_length_cm", "sleeve_length_cm" },
              lehenga |-> { "bust_cm", "waist_cm", "hip_cm", "skirt_length_cm", "dupatta_length_cm" },
              salwar |-> { "waist_cm", "hip_cm", "inseam_cm", "ankle_circumference_cm" },
              churidar |-> { "waist_cm", "hip_cm", "thigh_cm", "ankle_circumference_cm" } ],
      M |-> [ dhoti |-> { "waist_cm", "hip_cm", "dhoti_length_cm" },
              kurta |-> { "chest_cm", "waist_cm", "top_length_cm", "sleeve_length_cm" } ] ]

\* The garment codes asked about (from _get_default_garment_codes) with the
\* words the code's substring tests look for in each.
GarmentWords ==
    [ girls_skirt |-> { "girls", "skirt" },
      girls_formal_shirt_half |-> { "girls", "shirt" },
      girls_dupatta |-> { "girls", "dupatta" },
      boys_kurta |-> { "kurta" },
      boys_formal_pants |-> { } ]

\* 'word' in garment_code.lower()
HasWord(garment_code, word) == word \in GarmentWords[garment_code]

extract_garment_type(garment_code) ==
    IF HasWord(garment_code, "skirt") THEN "skirt"
    ELSE IF HasWord(garment_code, "dupatta") THEN "dupatta"
    ELSE IF HasWord(garment_code, "kurti") \/ HasWord(garment_code, "kurta")
         THEN (IF HasWord(garment_code, "girls") THEN "kurti" ELSE "kurta")
    ELSE IF HasWord(garment_code, "lehenga") THEN "lehenga"
    ELSE IF HasWord(garment_code, "salwar") THEN "salwar"
    ELSE IF HasWord(garment_code, "churidar") THEN "churidar"
    ELSE IF HasWord(garment_code, "dhoti") THEN "dhoti"
    ELSE IF HasWord(garment_code, "shirt") THEN "shirt"
    ELSE IF HasWord(garment_code, "blazer") THEN "blazer"
    ELSE IF HasWord(garment_code, "pinafore") THEN "pinafore"
    ELSE "generic"

\* garment_type in GENDER_SPECIFIC_MEASUREMENTS.get(gender, {})
is_gender_specific_garment(garment_type, gender) ==
    /\ gender \in DOMAIN GENDER_SPECIFIC_MEASUREMENTS
    /\ garment_type \in DOMAIN GENDER_SPECIFIC_MEASUREMENTS[gender]

\* A MeasurementPrediction as far as the claims look at it; tiers: the rule
\* and model tiers that were asked on the way, steps: the step names.
Prediction(value, confidence, method, tiers, steps) ==
    [ kind |-> "returned", error |-> "", value_cm |-> Round2(value),
      confidence |-> confidence, method_used |-> method,
      tiers |-> tiers, steps |-> steps ]

NoRule == [ kind |-> "none" ]

MeasureRaised(error, tiers, steps) ==
    [ kind |-> "raised", error |-> error, value_cm |-> None,
      confidence |-> None, method_used |-> "", tiers |-> tiers, steps |-> steps ]

\* log_measurement_explanation writes the explanation file with a plain
\* open(); a failing write raises out of the prediction.
MeasureLogged(result, logOK) ==
    IF logOK THEN result ELSE MeasureRaised("OSError", result.tiers, result.steps)

general_anthropometric_prediction(measurement_name, p, tiers, steps) ==
    IF measurement_name = "shoulder_cm"
    THEN Prediction(p.height_cm * 2500, 700, "anthropometric_general", tiers,
                    steps \o << "shoulder_anthropometric" >>)
    ELSE IF measurement_name = "sleeve_length_cm"
    THEN Prediction(p.height_cm * 3200, 700, "anthropometric_general", tiers,
                    steps \o << "sleeve_anthropometric" >>)
    ELSE Prediction(p.height_cm * 3000, 700, "anthropometric_general", tiers,
                    steps \o << "general_anthropometric" >>)

\* The skirt rule without its ease allowances.
predict_female_specific_no_ease(garment_type, measurement_name, p, tiers, steps) ==
    Prediction(IF measurement_name = "hip_cm" THEN p.hip_cm * Scale ELSE p.waist_cm * Scale,
               900, "female_skirt_waist_specific", tiers, steps)

predict_female_specific(garment_type, measurement_name, p, tiers, steps) ==
    IF garment_type = "skirt" /\ measurement_name = "waist_cm"
    THEN Prediction(p.waist_cm * Scale + 4 * 10 * Scale, 900, "female_skirt_waist_specific",
                    tiers, steps \o << "base_waist_measurement", "ease_allowance" >>)
    ELSE IF garment_type = "skirt" /\ measurement_name = "hip_cm"
    THEN Prediction(Max(p.hip_cm * Scale + 6 * 10 * Scale, p.waist_cm * 11500), 850,
                    "female_skirt_hip_specific", tiers,
                    steps \o << "hip_measurement_base", "hip_fitting_adjustment" >>)
    ELSE IF garment_type = "skirt" /\ measurement_name = "skirt_length_cm"
    THEN Prediction(IF p.age <= 8 THEN p.height_cm * 3150
                    ELSE IF p.age >= 15 THEN p.height_cm * 3850
                    ELSE p.height_cm * 3500,
                    800, "female_skirt_length_specific", tiers,
                    steps \o << "base_length_calculation", "age_adjustment" >>)
    ELSE IF garment_type = "dupatta" /\ measurement_name = "dupatta_length_cm"
    THEN Prediction(p.height_cm * 17500 - (IF p.age <= 10 THEN 10 * 10 * Scale ELSE 0),
                    800, "female_dupatta_specific", tiers,
                    steps \o << "dupatta_base_calculation", "style_adjustment" >>)
    ELSE general_anthropometric_prediction(measurement_name, p, tiers, steps)

predict_male_specific(garment_type, measurement_name, p, tiers, steps) ==
    IF garment_type = "kurta" /\ measurement_name = "top_length_cm"
    THEN Prediction(p.height_cm * 4500, 850, "male_kurta_specific", tiers,
                    steps \o << "kurta_length_calculation" >>)
    ELSE general_anthropometric_prediction(measurement_name, p, tiers, steps)

predict_gender_specific_measurement(garment_type, measurement_name, p, tiers, steps) ==
    IF p.gender = "F"
    THEN predict_female_specific(garment_type, measurement_name, p, tiers, steps)
    ELSE predict_male_specific(garment_type, measurement_name, p, tiers, steps)

\* _apply_female_garment_rules: a prediction, or NoRule for Python's None.
apply_female_garment_rules(garment_code, measure_name, p, tiers, steps) ==
    IF HasWord(garment_code, "shirt") \/ HasWord(garment_code, "blazer")
    THEN IF measure_name \in { "chest", "bust" }
         THEN Prediction(p.bust_cm * Scale + 8 * 10 * Scale, 850, "female_shirt_rule", tiers,
                         steps \o << "bust_base_measurement", "shirt_ease_allowance" >>)
         ELSE IF measure_name = "sleeve_length"
         THEN Prediction(IF p.age <= 8 THEN p.height_cm * 3040
                         ELSE IF p.age >= 14 THEN p.height_cm * 3360
                         ELSE p.height_cm * 3200,
                         800, "female_sleeve_rule", tiers,
                         steps \o << "sleeve_base_calculation", "age_adjustment" >>)
         ELSE NoRule
    ELSE NoRule

\* A fitted regressor as far as _ml_prediction uses it: what it predicts
\* (10^-5 cm) and the rmse stored in model_metrics (tenths of a cm).
NoRegressor == [ prediction |-> None, rmse |-> None ]

\* The confidence without its clamp.
ml_confidence_unclamped(rmse) == 1000 - rmse * 2

\* max(0.1, 1.0 - rmse / 50.0), then min(0.95, .), in thousandths.
ml_confidence(rmse) == Min(950, Max(100, 1000 - rmse * 2))

ml_prediction(model, measure_name, tiers, steps, logOK) ==
    MeasureLogged(Prediction(model.prediction, ml_confidence(model.rmse), "ml_random_forest",
                             tiers, steps \o << "ml_feature_preparation", "ml_prediction" >>),
                  logOK)

\* A truthy Optional[float]: neither None nor 0.
Truthy(v) == v # None /\ v # 0

universal_rule_prediction(measure_name, p) ==
    IF measure_name = "shoulder"
    THEN (IF Truthy(p.shoulder_cm) THEN p.shoulder_cm * Scale ELSE p.height_cm * 2500)
    ELSE IF measure_name = "sleeve_length"
    THEN (IF Truthy(p.sleeve_length_cm) THEN p.sleeve_length_cm * Scale ELSE p.height_cm * 3200)
    ELSE IF measure_name = "inseam" THEN p.height_cm * 4500
    ELSE IF measure_name = "outseam" THEN p.height_cm * 5800
    ELSE IF measure_name = "length" THEN p.height_cm * 3500
    ELSE p.height_cm * 3000

rule_based_value(measure_name, p) ==
    IF p.gender = "F"
    THEN IF measure_name \in { "bust", "chest" }
         THEN (IF Truthy(p.bust_cm) THEN p.bust_cm * Scale
               ELSE p.height_cm * 5200 + p.weight_kg * 4000)
         ELSE IF measure_name = "waist"
         THEN (IF Truthy(p.waist_cm) THEN p.waist_cm * Scale
               ELSE p.height_cm * 4200 + p.weight_kg * 3000)
         ELSE IF measure_name = "hip"
         THEN (IF Truthy(p.hip_cm) THEN p.hip_cm * Scale
               ELSE p.height_cm * 5400 + p.weight_kg * 3500)
         ELSE universal_rule_prediction(measure_name, p)
    ELSE IF measure_name = "chest"
         THEN (IF Truthy(p.chest_cm) THEN p.chest_cm * Scale
               ELSE p.height_cm * 5200 + p.weight_kg * 4000)
         ELSE IF measure_name = "waist"
         THEN (IF Truthy(p.waist_cm) THEN p.waist_cm * Scale
               ELSE p.height_cm * 4200 + p.weight_kg * 3000)
         ELSE universal_rule_prediction(measure_name, p)

rule_based_prediction(measure_name, p, tiers, steps, logOK) ==
    MeasureLogged(Prediction(rule_based_value(measure_name, p), 700, "rule_based", tiers,
                             steps \o << "rule_based_prediction" >>),
                  logOK)

\* A predictor that asks the regression model of the key before any rule.
predict_measurement_ml_first(garment_code, measure_name, p, manual_override, mdls, logOK) ==
    LET garment_type == extract_garment_type(garment_code)
        key          == << garment_code, measure_name >>
    IN  IF manual_override # None
        THEN MeasureLogged(Prediction(manual_override * 100, 1000, "manual_override",
                                      << >>, << "manual_override" >>), logOK)
        ELSE IF key \in DOMAIN mdls /\ mdls[key] # NoRegressor
        THEN ml_prediction(mdls[key], measure_name, << "ml" >>, << >>, logOK)
        ELSE IF is_gender_specific_garment(garment_type, p.gender)
        THEN MeasureLogged(predict_gender_specific_measurement(garment_type, measure_name, p,
                                << "gender_specific" >>, << "gender_specific_detection" >>),
                           logOK)
        ELSE rule_based_prediction(measure_name, p, << "rule_based" >>, << >>, logOK)

(***************************************************************************)
(* EnhancedMeasurementPredictor.predict_with_confidence.  manual_override  *)
(* is None or a value in thousandths of a cm; mdls maps a key (garment     *)
(* code, measure name) to its regressor or NoRegressor; logOK: whether the *)
(* write of the explanation file succeeds.                                 *)
(***************************************************************************)
predict_measurement(garment_code, measure_name, p, manual_override, mdls, logOK) ==
    LET garment_type == extract_garment_type(garment_code)
        key          == << garment_code, measure_name >>
        female       == apply_female_garment_rules(garment_code, measure_name, p,
                                                   << "female_garment_rules" >>, << >>)
        after        == IF p.gender = "F" THEN << "female_garment_rules" >> ELSE << >>
    IN  IF manual_override # None
        THEN MeasureLogged(Prediction(manual_override * 100, 1000, "manual_override",
                                      << >>, << "manual_override" >>), logOK)
        ELSE IF is_gender_specific_garment(garment_type, p.gender)
        THEN MeasureLogged(predict_gender_specific_measurement(garment_type, measure_name, p,
                                << "gender_specific" >>, << "gender_specific_detection" >>),
                           logOK)
        ELSE IF p.gender = "F" /\ female # NoRule
        THEN MeasureLogged(female, logOK)
        ELSE IF key \in DOMAIN mdls /\ mdls[key] # NoRegressor
        THEN ml_prediction(mdls[key], measure_name, after \o << "ml" >>, << >>, logOK)
        ELSE rule_based_prediction(measure_name, p, after \o << "rule_based" >>, << >>, logOK)


(***************************************************************************)
(* BalancedDatasetManager.  The corpora considered have two strata: the    *)
(* rows of stratum i are in the i-th age group and carry the i-th size     *)
(* class.  A frame is the pair of row counts of one gender's strata, a     *)
(* corpus is a record of the two genders' frames.                          *)
(***************************************************************************)
Rows(frame) == frame[1] + frame[2]

\* frame.sample(n=n, random_state=RANDOM_STATE): which rows the seed picks
\* depends on the rows, so every frame of n of the rows is possible.
Sample(frame, n) ==
    { << k, n - k >> : k \in { j \in 0..n : j <= frame[1] /\ n - j <= frame[2] } }

\* _balance_by_gender: the larger gender is sampled down to the smaller.
balance_by_gender(df) ==
    LET min_gender_count == Min(Rows(df.F), Rows(df.M))
        Cut(frame) == IF Rows(frame) > min_gender_count
                      THEN Sample(frame, min_gender_count) ELSE { frame }
    IN  { [ F |-> f, M |-> m ] : f \in Cut(df.F), m \in Cut(df.M) }

\* The loops of _balance_by_age_groups and _balance_by_size_distribution
\* over one gender's groups: the smallest non-empty group, but at least
\* `least`, is the size every group of that many rows is sampled down to.
Level(frame, least) ==
    LET sizes  == { frame[i] : i \in { j \in 1..2 : frame[j] > 0 } }
        target == Max(CHOOSE n \in sizes : \A o \in sizes : n <= o, least)
    IN  IF sizes = {} THEN frame
        ELSE [ i \in 1..2 |-> IF frame[i] >= target THEN target ELSE frame[i] ]

balance_by_age_groups(df) == [ F |-> Level(df.F, 10), M |-> Level(df.M, 10) ]

balance_by_size_distribution(df) == [ F |-> Level(df.F, 5), M |-> Level(df.M, 5) ]

\* _apply_smote_balancing, as the gender counts of the frame it returns.
\* smote: "attempted", "skipped" (under three numeric feature columns) or
\* "fails" (fit_resample raises).  SMOTE needs two classes and more than
\* k_neighbors = 3 rows of each, raises every class to the largest, and
\* the gender column is then refilled F, M, F, M, ...
apply_smote_balancing(df, smote) ==
    LET classes   == { i \in 1..2 : df.F[i] + df.M[i] > 0 }
        largest   == Max(df.F[1] + df.M[1], df.F[2] + df.M[2])
        resampled == Cardinality(classes) * largest
    IN  IF /\ smote = "attempted" /\ Cardinality(classes) = 2
           /\ \A i \in classes : df.F[i] + df.M[i] > 3
        THEN [ F |-> (resampled + 1) \div 2, M |-> resampled \div 2 ]
        ELSE [ F |-> Rows(df.F), M |-> Rows(df.M) ]

\* create_balanced_dataset(df, target_column): the gender counts of the
\* corpora it can return.
create_balanced_dataset(df, smote) ==
    { apply_smote_balancing(balance_by_size_distribution(balance_by_age_groups(b)), smote) :
        b \in balance_by_gender(df) }

(***************************************************************************)
(* The model registry.  A model object is a small integer; joblib.dump     *)
(* turns it into the file's bytes, joblib.load turns bytes back into a     *)
(* model or raises, hashlib.md5 turns bytes into a checksum.               *)
(***************************************************************************)
RegNames == { "size_classifier_female", "size_classifier_male" }
ModelObjects == { 1, 2 }

\* model_path.exists() is false.
NoFile == 0

\* joblib.dump(model_object, model_path): the bytes written.
Dump(model_object) == 2 * model_object + 1

\* What a model file can hold: a pickle of either model, or bytes that are
\* no pickle at all.
FileBytes == { Dump(m) : m \in ModelObjects } \cup { 4 }

\* joblib.load(model_path): the model, or None when unpickling raises.
Unpickle(bytes) == IF bytes % 2 = 1 THEN (bytes - 1) \div 2 ELSE None

\* hashlib.md5(f.read()).hexdigest(); distinct on FileBytes.
Checksum(bytes) == (bytes * 7 + 3) % 11

\* load_model without its comparison: every file passes.
checksum_unchecked(current_checksum, recorded) == TRUE

\* current_checksum != model_info['checksum'] is false (line 1024).
checksum_matches(current_checksum, recorded) == current_checksum = recorded

\* _load_registry on a missing registry file: {}.
EmptyRegistry == [ n \in RegNames |-> None ]

Idle ==
    [ kind |-> "idle", name |-> "", model |-> None, pc |-> "done",
      checksum |-> None, registry |-> EmptyRegistry, recorded |-> None,
      result |-> "", returned |-> None,
      start_file |-> NoFile, start_registry |-> EmptyRegistry,
      saved |-> None, disturbed |-> FALSE ]


(***************************************************************************)
(* State.                                                                  *)
(*   raw, ctor, profile, ctorError : one UserProfile(...) call: the        *)
(*     arguments, whether __post_init__ has run and how it ended, the      *)
(*     object it produced and the error it raised.                         *)
(*   is_trained, models, calibrated_models : the EnhancedSizeClassifier's  *)
(*     fields; models maps a model name to its fitted estimator or NoModel.*)
(*   trainings : the number of train() calls made so far.                  *)
(*   rec : the last predict_with_confidence call on the classifier: its    *)
(*     arguments, what its collaborators did, the classifier's state when  *)
(*     it was made, and its outcome.                                       *)
(*   first : in the two-call scenario, the call made before rec.           *)
(*   measure_models : the EnhancedMeasurementPredictor's models and        *)
(*     model_metrics, per key.                                             *)
(*   mrec : the last predict_with_confidence call on the measurement       *)
(*     predictor: its arguments and its outcome.                           *)
(*   model_files : the bytes of each <name>.joblib file (NoFile: absent).  *)
(*   registry_file : model_registry.json: per name the recorded checksum   *)
(*     (None: no entry).                                                   *)
(*   registry_torn : model_registry.json was truncated by a write that did *)
(*     not finish: it holds no JSON document.                              *)
(*   ops : per ModelRegistry instance the save_model / load_model call it  *)
(*     is in, with its position, its locals and its outcome.               *)
(*   last_save : per name the model object of the last save_model call     *)
(*     that ran to completion undisturbed and whose registry file has not  *)
(*     been torn since (None: there is none).                              *)
(*   brec: the last create_balanced_dataset call: its corpus, what the     *)
(*     oversampling stage did, and the gender counts of what it returned.  *)
(*   session_explanations : per ExplainabilityLogger instance its session  *)
(*     cache: per session id the explanations stored, in order.            *)
(*   logged : history: per logger and session id the explanations that    *)
(*     log_* calls were handed and returned from.                          *)
(*   srec : the service's create_profile_with_comprehensive_support call:  *)
(*     its session id and whether the response says success.               *)
(*   trec : the service's _train_measurement_models call: what it reports, *)
(*     the keys it stored a model for and the keys whose training failed.  *)
(***************************************************************************)
VARIABLES raw, ctor, profile, ctorError,
          is_trained, models, calibrated_models, trainings, rec, first,
          measure_models, mrec,
          model_files, registry_file, registry_torn, ops, last_save,
          brec,
          session_explanations, logged, srec, trec

profileVars == << raw, ctor, profile, ctorError >>
sizeVars == << is_trained, models, calibrated_models, trainings, rec, first >>
measureVars == << measure_models, mrec >>
registryVars == << model_files, registry_file, registry_torn, ops, last_save >>
balanceVars == << brec >>
serviceVars == << session_explanations, logged, srec, trec >>
vars == << raw, ctor, profile, ctorError,
           is_trained, models, calibrated_models, trainings, rec, first,
           measure_models, mrec,
           model_files, registry_file, registry_torn, ops, last_save,
           brec, session_explanations, logged, srec, trec >>

\* The number of train() calls one behaviour makes.
MaxTrainings == 2

\* The dataclass fields with their defaults (lines 766-793).
DefaultFields ==
    [ gender |-> "F", age |-> 12, height_cm |-> 1500, weight_kg |-> 400,
      bust_cm |-> None, waist_cm |-> None, hip_cm |-> None, shoulder_cm |-> None,
      sleeve_length_cm |-> None, top_length_cm |-> None, skirt_length_cm |-> None,
      dupatta_length_cm |-> None, waist_to_hip_drop |-> None, chest_cm |-> None,
      fit_preference |-> "standard", session_id |-> "" ]

\* Constructor arguments of the normaliser runs: values on, inside and just
\* outside the declared ranges, every measurement present or absent.
ProfileArgs ==
    [ gender : { "F", "M", "X" },
      age : { 2, 3, 10, 13, 18, 19 },
      height_cm : { 790, 800, 1520, 2000, 2010 },
      weight_kg : { 90, 100, 440, 1200 },
      bust_cm : { None, 785, 1410 },
      waist_cm : { None, 660, 390 },
      hip_cm : { None, 820 },
      shoulder_cm : { None, 510 },
      sleeve_length_cm : { None, 400 },
      top_length_cm : { None },
      skirt_length_cm : { None },
      dupatta_length_cm : { None },
      waist_to_hip_drop : { None },
      chest_cm : { None, 780, 2000 },
      fit_preference : { "standard" },
      session_id : { "" } ]

InitProfile(args) ==
    /\ raw \in args
    /\ ctor = "pending"
    /\ profile = DefaultFields
    /\ ctorError = NoError

\* UserProfile(**raw): the dataclass __init__ followed by __post_init__.
Construct ==
    /\ ctor = "pending"
    /\ LET c == post_init(raw)
       IN  /\ ctor' = IF c.raised THEN "raised" ELSE "ok"
           /\ ctorError' = c.error
           /\ profile' = IF c.raised THEN profile ELSE c.profile
    /\ UNCHANGED << raw, sizeVars, measureVars, registryVars, balanceVars, serviceVars >>

(***************************************************************************)
(* The size classifier.                                                    *)
(***************************************************************************)
ModelNames == { "female", "male", "universal" }

\* Constructor arguments of the profiles the classifier is asked about.
SizeArg(g, a, w, fit) ==
    [ DefaultFields EXCEPT !.gender = g, !.age = a, !.height_cm = 1450,
                           !.weight_kg = w, !.fit_preference = fit ]

SizeArgs ==
    { SizeArg("F", 8, 320, "snug"),      SizeArg("F", 12, 380, "snug"),
      SizeArg("F", 12, 380, "loose"),    SizeArg("M", 12, 380, "standard"),
      SizeArg("M", 8, 320, "loose"),     SizeArg("X", 12, 380, "standard"),
      SizeArg("F", 19, 380, "standard") }

\* The profiles that exist: the constructions that succeed.
Profiles(args) == { post_init(r).profile : r \in { a \in args : ~post_init(a).raised } }

SizeProfiles == Profiles(SizeArgs)

NoCall ==
    [ called |-> FALSE, profile |-> DefaultFields, compare_with_sql |-> FALSE,
      db |-> CHOOSE d \in DbBehaviours : ~d.cnx,
      predictOK |-> TRUE, calOK |-> TRUE, logs |-> << TRUE, TRUE >>,
      trained |-> FALSE, has_model |-> FALSE, gender_model |-> FALSE, baseline |-> None,
      unadjusted |-> [ best_size |-> "", confidence |-> None ],
      out |-> Raised("", NoSql, << >>) ]

InitSize ==
    /\ is_trained = FALSE
    /\ models = [ n \in ModelNames |-> NoModel ]
    /\ calibrated_models = {}
    /\ trainings = 0
    /\ rec = NoCall
    /\ first = NoCall

\* A training corpus, as far as train() looks at it: whether each gender has
\* at least MIN_SAMPLES_PER_MEASURE rows, and the estimators that fitting on
\* it yields (fitting is deterministic: random_state = RANDOM_STATE).
Corpora ==
    { [ female |-> TRUE,  male |-> TRUE,  gendered |-> EstHalfSizes, universal |-> EstSynthetic ],
      [ female |-> FALSE, male |-> FALSE, gendered |-> NoModel,      universal |-> EstTop ] }

\* _train_gender_specific_model stores the pipeline and its calibrated
\* wrapper together (lines 1603-1604).
Store(mdls, name, est) == [ mdls EXCEPT ![name] = est ]

(***************************************************************************)
(* EnhancedSizeClassifier.train on a non-empty corpus.  failAt: the model  *)
(* whose fitting raises, if any.  A model fitted before the exception      *)
(* stays stored; is_trained is set only after all three.                   *)
(***************************************************************************)
Train(corpus, failAt) ==
    LET doF == corpus.female /\ failAt # "female"
        doM == corpus.male /\ failAt \notin { "female", "male" }
        doU == failAt = "none"
        m1  == IF doF THEN Store(models, "female", corpus.gendered) ELSE models
        m2  == IF doM THEN Store(m1, "male", corpus.gendered) ELSE m1
        m3  == IF doU THEN Store(m2, "universal", corpus.universal) ELSE m2
    IN  /\ trainings < MaxTrainings
        /\ failAt = "female" => corpus.female
        /\ failAt = "male" => corpus.male
        /\ trainings' = trainings + 1
        /\ models' = m3
        /\ calibrated_models' = calibrated_models
                \cup (IF doF THEN { "female" } ELSE {})
                \cup (IF doM THEN { "male" } ELSE {})
                \cup (IF doU THEN { "universal" } ELSE {})
        /\ is_trained' = (is_trained \/ doU)
        /\ UNCHANGED << rec, first, profileVars, measureVars, registryVars, balanceVars, serviceVars >>

\* What can go wrong inside one request: model.predict raising, the
\* calibrated model's predict_proba raising, the explanation file's write
\* failing once or every time.
Faults ==
    { [ predictOK |-> TRUE,  calOK |-> TRUE,  logs |-> << TRUE, TRUE >> ],
      [ predictOK |-> TRUE,  calOK |-> FALSE, logs |-> << TRUE, TRUE >> ],
      [ predictOK |-> FALSE, calOK |-> TRUE,  logs |-> << TRUE, TRUE >> ],
      [ predictOK |-> TRUE,  calOK |-> TRUE,  logs |-> << FALSE, TRUE >> ],
      [ predictOK |-> TRUE,  calOK |-> FALSE, logs |-> << FALSE, FALSE >> ] }

\* One predict_with_confidence call, from its first line to its return or
\* raise.  trained, has_model: the classifier as the call found it;
\* gender_model: whether train() had stored a model for the profile's gender;
\* unadjusted: best_size and calibrated_confidence as they stand before the
\* fit-preference adjustment (line 1805);
\* baseline: the confidence the ensemble tier yields for this profile when
\* none of its steps fails (None when there is no model to ask).
Call(p, compare_with_sql, db, predictOK, calOK, logs) ==
    LET has == models[SelectModel(p, models)] # NoModel
    IN  /\ rec' = [ called |-> TRUE, profile |-> p,
                    compare_with_sql |-> compare_with_sql,
                    db |-> db, predictOK |-> predictOK, calOK |-> calOK, logs |-> logs,
                    trained |-> is_trained, has_model |-> has,
                    gender_model |-> /\ p.gender \in { "F", "M" }
                                     /\ models[IF p.gender = "F" THEN "female" ELSE "male"] # NoModel,
                    unadjusted |->
                        IF is_trained /\ has
                        THEN LET name == SelectModel(p, models)
                                 cal  == Calibrate(models[name], name \in calibrated_models, calOK)
                             IN  [ best_size |-> cal.best_size, confidence |-> cal.confidence ]
                        ELSE [ best_size |-> "", confidence |-> None ],
                    baseline |-> IF is_trained /\ has
                                 THEN EnsembleResult(p, models, calibrated_models, TRUE,
                                                     << >>, NoSql, db).confidence
                                 ELSE None,
                    out |-> predict_with_confidence(p, compare_with_sql, db, is_trained,
                                models, calibrated_models, predictOK, calOK, logs) ]
        /\ UNCHANGED << is_trained, models, calibrated_models, trainings,
                        profileVars, measureVars, registryVars, balanceVars, serviceVars >>

Predict(p, compare_with_sql, db, predictOK, calOK, logs) ==
    /\ Call(p, compare_with_sql, db, predictOK, calOK, logs)
    /\ UNCHANGED first

\* The two-call scenario: training happens before the first call, and the
\* second call passes the first call's profile again.  The fitted models
\* are deterministic, so predict and predict_proba fail in the second call
\* exactly if they failed in the first; the database and the explanation
\* file's write are free to behave differently.
TrainBefore(corpus, failAt) == ~rec.called /\ Train(corpus, failAt)

FirstCall(p, compare_with_sql, db, predictOK, calOK, logs) ==
    /\ ~rec.called
    /\ Predict(p, compare_with_sql, db, predictOK, calOK, logs)

SecondCall(compare_with_sql, db, logs) ==
    /\ rec.called /\ ~first.called
    /\ first' = rec
    /\ Call(rec.profile, compare_with_sql, db, rec.predictOK, rec.calOK, logs)

(***************************************************************************)
(* The measurement predictor's operations.                                 *)
(***************************************************************************)
MeasureKeys ==
    { << "girls_skirt", "waist_cm" >>, << "girls_skirt", "waist" >>,
      << "boys_formal_pants", "waist" >> }

\* The regressors a training run can store: what the pipeline predicts for
\* the profiles asked about and the rmse recorded with it.
Regressors ==
    { [ prediction |-> 6612345, rmse |-> 40 ],
      [ prediction |-> 6580000, rmse |-> 10 ],
      [ prediction |-> 7030000, rmse |-> 600 ] }

\* The profiles asked about: a girl and a boy with derived measurements, and
\* a girl whose supplied waist is wide for her supplied hip.
MeasureProfiles ==
    Profiles({ SizeArg("F", 12, 380, "standard"), SizeArg("M", 12, 380, "standard"),
               [ SizeArg("F", 12, 380, "standard") EXCEPT !.waist_cm = 700, !.hip_cm = 720 ] })

GarmentCodes == DOMAIN GarmentWords
MeasureNames == { "waist_cm", "hip_cm", "waist", "bust", "top_length_cm" }

\* manual_override: absent, the specification's 72.5, and a value with
\* three decimals.
Overrides == { None, 72500, 72456 }

NoMeasureCall ==
    [ called |-> FALSE, garment_code |-> "", measure_name |-> "",
      profile |-> DefaultFields, manual_override |-> None, logOK |-> TRUE,
      has_model |-> FALSE, rmse |-> None, out |-> MeasureRaised("", << >>, << >>) ]

InitMeasure ==
    /\ measure_models = [ k \in MeasureKeys |-> NoRegressor ]
    /\ mrec = NoMeasureCall

\* _train_single_measurement_model storing the fitted pipeline and its
\* metrics under the key (lines 2630-2637).
TrainSingle(key, fit) ==
    /\ measure_models' = [ measure_models EXCEPT ![key] = fit ]
    /\ UNCHANGED << mrec, profileVars, sizeVars, registryVars, balanceVars, serviceVars >>

PredictMeasure(garment_code, measure_name, p, manual_override, logOK) ==
    /\ mrec' = [ called |-> TRUE, garment_code |-> garment_code,
                 measure_name |-> measure_name, profile |-> p,
                 manual_override |-> manual_override, logOK |-> logOK,
                 has_model |-> /\ << garment_code, measure_name >> \in MeasureKeys
                               /\ measure_models[<< garment_code, measure_name >>] # NoRegressor,
                 rmse |-> IF << garment_code, measure_name >> \in MeasureKeys
                          THEN measure_models[<< garment_code, measure_name >>].rmse
                          ELSE None,
                 out |-> predict_measurement(garment_code, measure_name, p,
                                             manual_override, measure_models, logOK) ]
    /\ UNCHANGED << measure_models, profileVars, sizeVars, registryVars, balanceVars, serviceVars >>

(***************************************************************************)
(* The dataset balancer's operation.                                       *)
(***************************************************************************)
\* One gender's rows in the corpora handed in: even strata, one stratum
\* only, a skewed frame, the test's 100 and 30 rows, a small frame.
Frames == { << 15, 15 >>, << 30, 0 >>, << 25, 5 >>, << 50, 50 >>, << 12, 4 >> }

SmoteOutcomes == { "attempted", "skipped", "fails" }

NoBalanceCall ==
    [ called |-> FALSE, df |-> [ F |-> << 0, 0 >>, M |-> << 0, 0 >> ], smote |-> "skipped",
      gender_counts |-> [ F |-> 0, M |-> 0 ] ]

InitBalance == brec = NoBalanceCall

Balance(df, smote) ==
    /\ \E counts \in create_balanced_dataset(df, smote) :
          brec' = [ called |-> TRUE, df |-> df, smote |-> smote, gender_counts |-> counts ]
    /\ UNCHANGED << profileVars, sizeVars, measureVars, registryVars, serviceVars >>

(***************************************************************************)
(* The model registry's operations, one action per statement that touches  *)
(* the file system.  Instances hold no state of their own besides paths,   *)
(* so an instance is identified with the call it is making.                *)
(***************************************************************************)
Instances == { 1, 2 }

InitRegistry ==
    /\ model_files = [ n \in RegNames |-> NoFile ]
    /\ registry_file = EmptyRegistry
    /\ registry_torn = FALSE
    /\ ops = [ i \in Instances |-> Idle ]
    /\ last_save = [ n \in RegNames |-> None ]

Running(i) == ops[i].pc # "done"
Quiescent == \A i \in Instances : ~Running(i)

Finish(op, result, returned) ==
    [ op EXCEPT !.pc = "done", !.result = result, !.returned = returned,
                !.registry = EmptyRegistry, !.start_registry = EmptyRegistry ]

RestUnchanged == UNCHANGED << profileVars, sizeVars, measureVars, balanceVars, serviceVars >>

\* Instance i enters a call: its record is replaced, and the outcomes of
\* calls that returned earlier are no longer kept.
Enter(i, op) ==
    [ j \in Instances |-> IF j = i THEN op ELSE IF Running(j) THEN ops[j] ELSE Idle ]

\* save_model(model_name, model_object) is called.
BeginSave(i, name, model_object) ==
    /\ ~Running(i)
    /\ ops' = Enter(i, [ Idle EXCEPT !.kind = "save", !.name = name,
                                     !.model = model_object, !.pc = "dump",
                                     !.start_file = model_files[name],
                                     !.start_registry = registry_file ])
    /\ UNCHANGED << model_files, registry_file, registry_torn, last_save >>
    /\ RestUnchanged

\* ... while no other registry call is in progress.
StartSave(i, name, model_object) == Quiescent /\ BeginSave(i, name, model_object)

\* joblib.dump(model_object, model_path)
SaveDump(i) ==
    /\ ops[i].kind = "save" /\ ops[i].pc = "dump"
    /\ model_files' = [ model_files EXCEPT ![ops[i].name] = Dump(ops[i].model) ]
    /\ last_save' = [ last_save EXCEPT ![ops[i].name] = None ]
    /\ ops' = [ ops EXCEPT ![i].pc = "hash" ]
    /\ UNCHANGED << registry_file, registry_torn >>
    /\ RestUnchanged

\* checksum = hashlib.md5(open(model_path, 'rb').read()).hexdigest()
SaveHash(i) ==
    /\ ops[i].kind = "save" /\ ops[i].pc = "hash"
    /\ ops' = [ ops EXCEPT ![i].pc = "load_registry",
                           ![i].checksum = Checksum(model_files[ops[i].name]) ]
    /\ UNCHANGED << model_files, registry_file, registry_torn, last_save >>
    /\ RestUnchanged

\* registry = self._load_registry()
SaveLoadRegistry(i) ==
    /\ ops[i].kind = "save" /\ ops[i].pc = "load_registry"
    /\ ops' = [ ops EXCEPT ![i] =
                  IF registry_torn
                  THEN Finish(ops[i], "JSONDecodeError", None)
                  ELSE [ ops[i] EXCEPT !.pc = "save_registry", !.registry = registry_file ] ]
    /\ UNCHANGED << model_files, registry_file, registry_torn, last_save >>
    /\ RestUnchanged

\* registry[model_name] = {...}; self._save_registry(registry); return
SaveRegistry(i) ==
    /\ ops[i].kind = "save" /\ ops[i].pc = "save_registry"
    /\ registry_file' = [ ops[i].registry EXCEPT ![ops[i].name] = ops[i].checksum ]
    /\ last_save' = [ last_save EXCEPT ![ops[i].name] =
                        IF ops[i].disturbed THEN None ELSE ops[i].model ]
    /\ registry_torn' = FALSE
    /\ ops' = [ ops EXCEPT ![i] = Finish(ops[i], "ok", None) ]
    /\ UNCHANGED model_files
    /\ RestUnchanged

\* _save_registry opens the registry file for writing, which truncates it,
\* and json.dump does not finish (the disk is full, the process is killed).
SaveRegistryTorn(i) ==
    /\ ops[i].kind = "save" /\ ops[i].pc = "save_registry"
    /\ registry_file' = EmptyRegistry
    /\ registry_torn' = TRUE
    /\ last_save' = [ n \in RegNames |-> None ]
    /\ ops' = [ ops EXCEPT ![i] = Finish(ops[i], "OSError", None) ]
    /\ UNCHANGED model_files
    /\ RestUnchanged

\* A statement of save_model raises (the disk is full, the directory is
\* not writable): the call ends there with what it did so far left behind.
SaveFails(i) ==
    /\ ops[i].kind = "save" /\ Running(i)
    /\ last_save' = [ last_save EXCEPT ![ops[i].name] = None ]
    /\ ops' = [ ops EXCEPT ![i] = Finish(ops[i], "OSError", None) ]
    /\ UNCHANGED << model_files, registry_file, registry_torn >>
    /\ RestUnchanged

\* load_model(model_name) is called.
BeginLoad(i, name) ==
    /\ ~Running(i)
    /\ ops' = Enter(i, [ Idle EXCEPT !.kind = "load", !.name = name,
                                     !.pc = "load_registry",
                                     !.start_file = model_files[name],
                                     !.saved = last_save[name] ])
    /\ UNCHANGED << model_files, registry_file, registry_torn, last_save >>
    /\ RestUnchanged

\* ... while no other registry call is in progress.
StartLoad(i, name) == Quiescent /\ BeginLoad(i, name)

\* registry = self._load_registry(); if model_name not in registry: raise
LoadRegistry(i) ==
    /\ ops[i].kind = "load" /\ ops[i].pc = "load_registry"
    /\ ops' = [ ops EXCEPT ![i] =
                  IF registry_torn
                  THEN Finish(ops[i], "JSONDecodeError", None)
                  ELSE IF registry_file[ops[i].name] = None
                  THEN Finish(ops[i], "FileNotFoundError", None)
                  ELSE [ ops[i] EXCEPT !.pc = "exists", !.registry = registry_file,
                                       !.recorded = registry_file[ops[i].name] ] ]
    /\ UNCHANGED << model_files, registry_file, registry_torn, last_save >>
    /\ RestUnchanged

\* if not model_path.exists(): raise
LoadExists(i) ==
    /\ ops[i].kind = "load" /\ ops[i].pc = "exists"
    /\ ops' = [ ops EXCEPT ![i] =
                  IF model_files[ops[i].name] = NoFile
                  THEN Finish(ops[i], "FileNotFoundError", None)
                  ELSE [ ops[i] EXCEPT !.pc = "verify" ] ]
    /\ UNCHANGED << model_files, registry_file, registry_torn, last_save >>
    /\ RestUnchanged

\* current_checksum = md5 of the file; if it differs from the entry: raise
LoadVerify(i) ==
    /\ ops[i].kind = "load" /\ ops[i].pc = "verify"
    /\ LET current_checksum == Checksum(model_files[ops[i].name])
       IN  ops' = [ ops EXCEPT ![i] =
                      IF checksum_matches(current_checksum, ops[i].registry[ops[i].name])
                      THEN [ ops[i] EXCEPT !.pc = "unpickle", !.checksum = current_checksum ]
                      ELSE Finish([ ops[i] EXCEPT !.checksum = current_checksum ],
                                  "ValueError", None) ]
    /\ UNCHANGED << model_files, registry_file, registry_torn, last_save >>
    /\ RestUnchanged

\* return joblib.load(model_path): the file is read a second time.
LoadUnpickle(i) ==
    /\ ops[i].kind = "load" /\ ops[i].pc = "unpickle"
    /\ LET model_object == Unpickle(model_files[ops[i].name])
       IN  ops' = [ ops EXCEPT ![i] =
                      IF model_object = None
                      THEN Finish(ops[i], "UnpicklingError", None)
                      ELSE Finish(ops[i], "returned", model_object) ]
    /\ UNCHANGED << model_files, registry_file, registry_torn, last_save >>
    /\ RestUnchanged

\* Something other than the registry changes the bytes of a stored model.
Corrupt(name, bytes) ==
    /\ model_files[name] # NoFile
    /\ model_files[name] # bytes
    /\ model_files' = [ model_files EXCEPT ![name] = bytes ]
    /\ ops' = [ i \in Instances |->
                  IF Running(i) /\ ops[i].name = name
                  THEN [ ops[i] EXCEPT !.disturbed = TRUE ] ELSE ops[i] ]
    /\ UNCHANGED << registry_file, registry_torn, last_save >>
    /\ RestUnchanged


(***************************************************************************)
(* ExplainabilityLogger and the EnhancedAIService that owns one.  The size *)
(* classifier, the measurement predictor and the service each construct    *)
(* their own logger (lines 1482, 2096, 2495); session_explanations[l] is   *)
(* the session cache of logger l.  The session id "" stands for None.      *)
(* logged is history: the explanations each logger's log_* calls were      *)
(* handed, per session, for the calls that returned.                       *)
(***************************************************************************)
Sessions == { "", "session_1", "session_2" }

\* log_size_explanation: the cache after the call.  The explanation is
\* stored after the file is written, and only under a truthy session id.
log_size_explanation(cache, explanation, session_id, writeOK) ==
    IF writeOK /\ session_id # ""
    THEN [ cache EXCEPT ![session_id] =
             Append(@, [ kind |-> "recommendation", value |-> explanation.value,
                         method |-> explanation.method ]) ]
    ELSE cache

\* log_measurement_explanation: the cache after the call.  The method
\* writes the file and returns.
log_measurement_explanation(cache, explanation, session_id, writeOK) == cache

get_session_explanations(cache, session_id) ==
    IF session_id \in DOMAIN cache THEN cache[session_id] ELSE << >>

\* EnhancedAIService.get_explanation_summary, read from the service's own
\* logger.
get_explanation_summary(cache, session_id) ==
    LET explanations == get_session_explanations(cache, session_id)
        count(kind)  == Cardinality({ i \in 1..Len(explanations) : explanations[i].kind = kind })
    IN  IF explanations = << >>
        THEN [ status |-> "no_explanations", total_explanations |-> 0,
               size_recommendations |-> 0, measurement_predictions |-> 0 ]
        ELSE [ status |-> "explanations_available",
               total_explanations |-> Len(explanations),
               size_recommendations |-> count("recommendation"),
               measurement_predictions |-> count("measurement") ]

InitService ==
    /\ session_explanations =
          [ l \in { "size_classifier", "measurement_predictor", "service" } |->
              [ s \in Sessions \ { "" } |-> << >> ] ]
    /\ logged = session_explanations
    /\ srec = [ called |-> FALSE, session_id |-> "", success |-> FALSE ]
    /\ trec = [ called |-> FALSE, status |-> "", models_trained |-> None,
                stored |-> {}, failed |-> {} ]

\* The number of explanations one behaviour hands to the loggers directly.
MaxLogs == 2

\* The number of explanations in the history.
LogCount ==
    LET n(l) == Len(logged[l]["session_1"]) + Len(logged[l]["session_2"])
    IN  n("size_classifier") + n("measurement_predictor") + n("service")

\* What the history keeps of a call that returned.
Record(history, l, kind, explanation, session_id) ==
    IF session_id = "" THEN history
    ELSE [ history EXCEPT ![l][session_id] =
             Append(@, [ kind |-> kind, value |-> explanation.value,
                         method |-> explanation.method ]) ]

\* One log_size_explanation call on logger l.
LogSize(l, explanation, session_id, writeOK) ==
    /\ LogCount < MaxLogs
    /\ session_explanations' = [ session_explanations EXCEPT ![l] =
            log_size_explanation(@, explanation, session_id, writeOK) ]
    /\ logged' = IF writeOK THEN Record(logged, l, "recommendation", explanation, session_id)
                 ELSE logged
    /\ UNCHANGED << srec, trec, profileVars, sizeVars, measureVars, registryVars, balanceVars >>

\* One log_measurement_explanation call on logger l.
LogMeasurement(l, explanation, session_id, writeOK) ==
    /\ LogCount < MaxLogs
    /\ session_explanations' = [ session_explanations EXCEPT ![l] =
            log_measurement_explanation(@, explanation, session_id, writeOK) ]
    /\ logged' = IF writeOK THEN Record(logged, l, "measurement", explanation, session_id)
                 ELSE logged
    /\ UNCHANGED << srec, trec, profileVars, sizeVars, measureVars, registryVars, balanceVars >>

(***************************************************************************)
(* EnhancedAIService.create_profile_with_comprehensive_support.            *)
(* squad_color "" stands for None.  The size request runs in the service's *)
(* classifier with compare_with_sql = True and logs through the            *)
(* classifier's logger; each measurement request of the loop logs through  *)
(* the predictor's logger.  mlogs: for the measurement requests in the     *)
(* order the loop makes them, whether the explanation file's write         *)
(* succeeds; the first failure raises and ends the loop.  Every exception  *)
(* ends in a response with success = False.                                *)
(***************************************************************************)
CreateProfile(p, squad_color, session_id, db, f, mlogs) ==
    /\ ~srec.called
    /\ Len(mlogs) \in 1..2
    /\ \E size_rec \in { predict_with_confidence(p, TRUE, db, is_trained, models,
                             calibrated_models, f.predictOK, f.calOK, f.logs) } :
       \E sized \in { /\ squad_color \in { "", "red", "yellow", "green", "pink", "blue", "orange" }
                      /\ size_rec.kind = "returned" } :
       \E done \in { n \in 0..Len(mlogs) : /\ \A i \in 1..n : mlogs[i]
                                           /\ n < Len(mlogs) => ~mlogs[n + 1] } :
           LET size_exp == [ value |-> size_rec.size_code, method |-> size_rec.method_used ]
               meas_exp == [ value |-> "waist", method |-> "rule_based" ]
               after1   == Record(logged, "size_classifier", "recommendation", size_exp, session_id)
               after2   == IF done >= 1
                           THEN Record(after1, "measurement_predictor", "measurement",
                                       meas_exp, session_id)
                           ELSE after1
               after3   == IF done >= 2
                           THEN Record(after2, "measurement_predictor", "measurement",
                                       meas_exp, session_id)
                           ELSE after2
           IN  /\ session_explanations' =
                     IF sized
                     THEN [ session_explanations EXCEPT !["size_classifier"] =
                               log_size_explanation(@, size_exp, session_id, TRUE) ]
                     ELSE session_explanations
               /\ logged' = IF sized THEN after3 ELSE logged
               /\ srec' = [ called |-> TRUE, session_id |-> session_id,
                            success |-> sized /\ done = Len(mlogs) ]
               /\ UNCHANGED << trec, profileVars, sizeVars, measureVars, registryVars, balanceVars >>

(***************************************************************************)
(* EnhancedAIService._train_measurement_models with the                    *)
(* _train_single_measurement_model calls it makes.  groups: the rows of    *)
(* each (garment, measure) group of the frame, as the two genders' frames; *)
(* smote: what the balancer's oversampling stage does; fits: per key the   *)
(* regressor that fitting and evaluating yields, or NoRegressor when a     *)
(* statement of _train_single_measurement_model raises, which that method  *)
(* catches and logs.  A key is attempted when its group and its balanced   *)
(* group both have MIN_SAMPLES_PER_MEASURE = 25 rows; models_trained is    *)
(* incremented after every attempt.                                        *)
(***************************************************************************)
TrainMeasurementModels(groups, smote, fits) ==
    LET len(df)     == Rows(df.F) + Rows(df.M)
        balanced(k) == { c.F + c.M : c \in create_balanced_dataset(groups[k], smote) }
        total       == len(groups[<< "girls_skirt", "waist_cm" >>])
                         + len(groups[<< "girls_skirt", "waist" >>])
                         + len(groups[<< "boys_formal_pants", "waist" >>])
    IN  /\ ~trec.called
        /\ \E attempted \in SUBSET MeasureKeys :
              LET stored == { k \in attempted : fits[k] # NoRegressor }
              IN  /\ \A k \in attempted :
                        len(groups[k]) >= 25 /\ \E n \in balanced(k) : n >= 25
                  /\ \A k \in MeasureKeys \ attempted :
                        len(groups[k]) < 25 \/ \E n \in balanced(k) : n < 25
                  /\ measure_models' = [ k \in MeasureKeys |->
                        IF k \in stored THEN fits[k] ELSE measure_models[k] ]
                  /\ trec' = IF total = 0
                             THEN [ called |-> TRUE, status |-> "no_data",
                                    models_trained |-> None, stored |-> {}, failed |-> {} ]
                             ELSE [ called |-> TRUE, status |-> "success",
                                    models_trained |-> Cardinality(attempted),
                                    stored |-> stored, failed |-> attempted \ stored ]
        /\ UNCHANGED << mrec, session_explanations, logged, srec,
                        profileVars, sizeVars, registryVars, balanceVars >>

InitP == InitProfile(ProfileArgs) /\ InitSize /\ InitMeasure /\ InitRegistry /\ InitBalance /\ InitService
NextP == Construct
SpecProfile == InitP /\ [][NextP]_vars

InitS == InitProfile({ DefaultFields }) /\ InitSize /\ InitMeasure /\ InitRegistry /\ InitBalance /\ InitService

\* Training runs before and after one request.  A request leaves the
\* classifier as it found it, so one request per behaviour reaches every
\* pair of a classifier state and a request made in an earlier one.
NextS ==
    \/ \E corpus \in Corpora, failAt \in { "none", "male", "universal" } :
            Train(corpus, failAt)
    \/ \E p \in SizeProfiles, c \in BOOLEAN, db \in DbBehaviours, f \in Faults :
            FirstCall(p, c, db, f.predictOK, f.calOK, f.logs)
SpecSize == InitS /\ [][NextS]_vars

NextR ==
    \/ \E corpus \in Corpora, failAt \in { "none", "male", "universal" } :
            TrainBefore(corpus, failAt)
    \/ \E p \in SizeProfiles, c \in BOOLEAN, db \in DbBehaviours, f \in Faults :
            FirstCall(p, c, db, f.predictOK, f.calOK, f.logs)
    \/ \E c \in BOOLEAN, db \in DbBehaviours, f \in Faults :
            SecondCall(c, db, f.logs)
SpecRepeat == InitS /\ [][NextR]_vars

NextM ==
    \/ \E key \in MeasureKeys, fit \in Regressors : TrainSingle(key, fit)
    \/ \E g \in GarmentCodes, m \in MeasureNames, p \in MeasureProfiles,
          v \in Overrides, logOK \in BOOLEAN :
            ~mrec.called /\ PredictMeasure(g, m, p, v, logOK)
SpecMeasure == InitS /\ [][NextM]_vars

\* One decision per behaviour, of the size classifier or of the measurement
\* predictor: the two are separate objects, so a behaviour that drives one
\* of them leaves the other as constructed.
NextD ==
    \/ /\ ~mrec.called
       /\ \A k \in MeasureKeys : measure_models[k] = NoRegressor
       /\ NextS
    \/ /\ ~rec.called
       /\ trainings = 0
       /\ NextM
SpecDecision == InitS /\ [][NextD]_vars

\* One registry call at a time, from any instance; the stored bytes can be
\* changed at any moment.
NextG ==
    \/ \E i \in Instances, n \in RegNames, m \in ModelObjects : StartSave(i, n, m)
    \/ \E i \in Instances : SaveDump(i)
    \/ \E i \in Instances : SaveHash(i)
    \/ \E i \in Instances : SaveLoadRegistry(i)
    \/ \E i \in Instances : SaveRegistry(i)
    \/ \E i \in Instances : SaveRegistryTorn(i)
    \/ \E i \in Instances : SaveFails(i)
    \/ \E i \in Instances, n \in RegNames : StartLoad(i, n)
    \/ \E i \in Instances : LoadRegistry(i)
    \/ \E i \in Instances : LoadExists(i)
    \/ \E i \in Instances : LoadVerify(i)
    \/ \E i \in Instances : LoadUnpickle(i)
    \/ \E n \in RegNames, b \in FileBytes : Corrupt(n, b)
SpecRegistry == InitS /\ [][NextG]_vars

\* Registry calls of several threads on one model name, interleaved at the
\* statements that touch the files; nothing fails and nothing else writes.
NextC ==
    \E i \in Instances :
        \/ \E m \in ModelObjects : BeginSave(i, "size_classifier_female", m)
        \/ SaveDump(i)
        \/ SaveHash(i)
        \/ SaveLoadRegistry(i)
        \/ SaveRegistry(i)
        \/ BeginLoad(i, "size_classifier_female")
        \/ LoadRegistry(i)
        \/ LoadExists(i)
        \/ LoadVerify(i)
        \/ LoadUnpickle(i)

SpecConcurrent == InitS /\ [][NextC]_vars

\* save_model calls of two threads, one per model name, interleaved at the
\* statements that touch the files; nothing fails and nothing else writes.
NextT ==
    \E i \in Instances :
        \/ \E m \in ModelObjects :
              BeginSave(i, IF i = 1 THEN "size_classifier_female" ELSE "size_classifier_male", m)
        \/ SaveDump(i)
        \/ SaveHash(i)
        \/ SaveLoadRegistry(i)
        \/ SaveRegistry(i)

SpecTwoNames == InitS /\ [][NextT]_vars

\* Corpora with both genders handed to the dataset balancer.
NextB ==
    \E f \in Frames, m \in Frames, smote \in SmoteOutcomes :
        Balance([ F |-> f, M |-> m ], smote)

SpecBalance == InitS /\ [][NextB]_vars

\* A behaviour of the service either retrains the measurement models, or
\* has its loggers called directly, as the explainability test does, and
\* creates one profile, with the classifier trained before that or left
\* untrained.
NextL ==
    \/ \E corpus \in Corpora :
            ~trec.called /\ ~srec.called /\ LogCount = 0 /\ Train(corpus, "none")
    \/ \E l \in DOMAIN session_explanations, s \in Sessions, writeOK \in BOOLEAN :
            ~trec.called /\ LogSize(l, [ value |-> "medium", method |-> "ensemble_ai" ], s, writeOK)
    \/ \E l \in DOMAIN session_explanations, s \in Sessions, writeOK \in BOOLEAN :
            ~trec.called /\ LogMeasurement(l, [ value |-> "waist", method |-> "rule_based" ], s, writeOK)
    \/ ~trec.called /\ ~srec.called /\ \E p \in MeasureProfiles,
          squad_color \in { "", "red", "purple" }, s \in Sessions,
          db \in { d \in DbBehaviours : d.chart = "row" }, f \in Faults,
          mlogs \in { << TRUE >>, << TRUE, TRUE >>, << TRUE, FALSE >> } :
            CreateProfile(p, squad_color, s, db, f, mlogs)
    \/ ~srec.called /\ LogCount = 0 /\ trainings = 0 /\
          \E groups \in [ MeasureKeys -> { [ F |-> f, M |-> f ] :
                                              f \in { << 0, 0 >>, << 12, 4 >>, << 15, 15 >> } } ],
             smote \in SmoteOutcomes, fits \in [ MeasureKeys -> Regressors \cup { NoRegressor } ] :
            TrainMeasurementModels(groups, smote, fits)
SpecSession == InitS /\ [][NextL]_vars

(***************************************************************************)
(* Properties of the normaliser (SpecProfile).                             *)
(***************************************************************************)
\* The supplied fields whose value lies below the declared minimum or above
\* the declared maximum.
SuppliedOutOfRange ==
    { f \in DOMAIN VALIDATION_BOUNDS :
        /\ raw[f] # None
        /\ (raw[f] < VALIDATION_BOUNDS[f][1] \/ raw[f] > VALIDATION_BOUNDS[f][2]) }

\* C1: after a successful construction every non-null field that has an
\* entry in VALIDATION_BOUNDS lies within its declared range, a bust copied
\* from a supplied chest included.
C1_BoundedFieldsInRange ==
    ctor = "ok" =>
        \A f \in DOMAIN VALIDATION_BOUNDS :
            profile[f] # None => InBounds(f, profile[f])

\* C2: a supplied bounded field outside its range makes the construction
\* fail with an error naming an offending field, its value and its range,
\* and no profile is produced; with every supplied field in range the
\* construction succeeds and keeps each supplied bounded value unclamped.
C2_OutOfRangeRejected ==
    ctor # "pending" =>
        IF SuppliedOutOfRange # {}
        THEN /\ ctor = "raised"
             /\ ctorError.field \in SuppliedOutOfRange
             /\ ctorError.value = raw[ctorError.field]
             /\ ctorError.bounds = VALIDATION_BOUNDS[ctorError.field]
             /\ profile = DefaultFields
        ELSE /\ ctor = "ok"
             /\ ctorError = NoError
             /\ \A f \in DOMAIN VALIDATION_BOUNDS :
                    raw[f] # None => profile[f] = raw[f]

\* C2 witness: a construction refused for a waist below the minimum while
\* an earlier field (height) is in range.
C2_Witness ==
    /\ ctor = "raised"
    /\ ctorError.field = "waist_cm"
    /\ ctorError.value = 390
    /\ raw.height_cm = 2000

\* C3: after a successful construction every core measurement of the
\* profile's gender is non-null, and every measurement the caller supplied
\* still has the supplied value.
C3_BackfillsMissing ==
    ctor = "ok" =>
        /\ raw.gender = "F" => \A f \in FEMALE_CORE_FEATURES : profile[f] # None
        /\ raw.gender = "M" => \A f \in MALE_CORE_FEATURES : profile[f] # None
        /\ \A f \in MEASUREMENT_FIELDS : raw[f] # None => profile[f] = raw[f]
        /\ profile.gender = raw.gender

\* C3 witness: a female profile built from a supplied waist only, whose hip
\* and bust were derived.
C3_Witness ==
    /\ ctor = "ok"
    /\ raw.gender = "F"
    /\ raw.waist_cm = 660 /\ profile.waist_cm = 660
    /\ raw.hip_cm = None /\ profile.hip_cm # None
    /\ raw.bust_cm = None /\ raw.chest_cm = None /\ profile.bust_cm # None

\* C4: a gender outside {M, F} makes the construction fail: no profile is
\* returned and nothing is derived for it.
C4_UnknownGenderFails ==
    (ctor # "pending" /\ ~validate_gender(raw.gender)) =>
        /\ ctor = "raised"
        /\ profile = DefaultFields

(***************************************************************************)
(* Properties of the size classifier (SpecSize, SpecRepeat).               *)
(***************************************************************************)
AlternativeCodes(out) == { out.alternatives[i][1] : i \in 1..Len(out.alternatives) }

ServedByEnsemble(r) ==
    r.out.kind = "returned" /\ r.out.method_used \in { "ai_female", "ai_male", "ai_universal" }

\* C6: every SizeRecommendation returned has confidence in [0, 1] and an
\* alternatives list that does not contain the returned size_code, also
\* after a loose/snug adjustment moved the size_code.
C6_AlternativesExcludeTopPick ==
    (rec.called /\ rec.out.kind = "returned") =>
        /\ 0 <= rec.out.confidence /\ rec.out.confidence <= 1000
        /\ rec.out.size_code \notin AlternativeCodes(rec.out)

\* C7 as claimed: two successive recommendations for the same profile with
\* unchanged models return the same size_code and confidence, whatever the
\* database does.
C7_IdempotentWhateverDb ==
    (first.called /\ first.out.kind = "returned" /\ rec.out.kind = "returned") =>
        /\ rec.out.size_code = first.out.size_code
        /\ rec.out.confidence = first.out.confidence

\* C7 amended: two successive recommendations for the same profile with
\* unchanged models return the same size_code and confidence whenever the
\* ensemble serves both, whatever the database does; when the rule-function
\* fallback serves both they agree provided the database behaved the same
\* way in both calls.
C7_IdempotentPerTier ==
    ( /\ first.called /\ first.out.kind = "returned" /\ rec.out.kind = "returned"
      /\ ServedByEnsemble(first) = ServedByEnsemble(rec)
      /\ (ServedByEnsemble(rec) \/ rec.db = first.db) ) =>
        /\ rec.out.size_code = first.out.size_code
        /\ rec.out.confidence = first.out.confidence

\* C7 witness: the ensemble served both calls while the database went from
\* answering to unreachable between them.
C7_Witness ==
    /\ first.called /\ ServedByEnsemble(first) /\ ServedByEnsemble(rec)
    /\ first.compare_with_sql /\ rec.compare_with_sql
    /\ first.db.cnx /\ ~rec.db.cnx
    /\ rec.profile.fit_preference = "loose"

\* C8: when a tier fails and a lower tier serves the request, the lower
\* tier's confidence is at most the confidence the failed higher tier would
\* have returned (ensemble -> size function -> BMI rule -> age heuristic).
C8_FallbackMonotone ==
    (rec.called /\ rec.out.kind = "returned") =>
        /\ (rec.out.method_used = "sql_error_fallback") =>
                rec.out.confidence <= rec.baseline
        /\ (rec.out.sql_recommendation.method = "sql_rule_fallback") =>
                rec.out.sql_recommendation.confidence <= DbFunction(rec.profile, rec.db).confidence
        /\ (rec.out.sql_recommendation.method = "age_fallback") =>
                rec.out.sql_recommendation.confidence <= BmiRule(rec.profile).confidence

\* C9: when every tier is exhausted (the classifier is untrained, has no
\* model for the request or its prediction fails, and there is no sql_rec)
\* the call raises and carries no size; a returned size is the ensemble's
\* or the rule function's, never a made-up one.
C9_ExhaustedRaises ==
    rec.called =>
        /\ ((~rec.trained \/ ~rec.has_model \/ ~rec.predictOK) /\ ~rec.compare_with_sql) =>
                /\ rec.out.kind = "raised"
                /\ rec.out.error \in { "RuntimeError", "PredictError" }
                /\ rec.out.size_code = ""
        /\ rec.out.kind = "returned" =>
                \/ /\ ServedByEnsemble(rec)
                   /\ rec.trained /\ rec.has_model /\ rec.predictOK
                \/ /\ rec.compare_with_sql
                   /\ rec.out.size_code = get_sql_recommendation(rec.profile, rec.db).size_code

\* C9 witness: a trained classifier whose prediction failed with
\* compare_with_sql false re-raised the prediction error.
C9_Witness ==
    /\ rec.called /\ rec.trained /\ rec.has_model
    /\ ~rec.predictOK /\ ~rec.compare_with_sql
    /\ rec.out.kind = "raised" /\ rec.out.error = "PredictError"

(***************************************************************************)
(* Properties of the measurement predictor (SpecMeasure).                  *)
(***************************************************************************)
\* C5: measurement prediction with a non-null manual override v returns
\* value_cm = v, confidence 1.0 and method 'manual_override', whatever the
\* garment, measure, profile and trained models; no rule or model tier is
\* consulted.
C5_OverrideReturnsValue ==
    (mrec.called /\ mrec.manual_override # None) =>
        /\ mrec.out.kind = "returned"
        /\ mrec.out.value_cm * 10 = mrec.manual_override
        /\ mrec.out.confidence = 1000
        /\ mrec.out.method_used = "manual_override"
        /\ mrec.out.tiers = << >>

(***************************************************************************)
(* Properties of the model registry (SpecRegistry).                        *)
(***************************************************************************)
LoadsAfterSave ==
    { i \in Instances : /\ ops[i].kind = "load" /\ ops[i].pc = "done"
                        /\ ops[i].saved # None /\ ~ops[i].disturbed }

\* C10: a load_model(name) that follows a completed save_model(name, model)
\* returns that model, and the file's checksum equals the recorded one, if
\* the stored bytes are still the saved ones; if they were changed after
\* the save it raises the integrity error (ValueError) and returns no model.
C10_SaveThenLoadVerifies ==
    \A i \in LoadsAfterSave :
        IF ops[i].start_file = Dump(ops[i].saved)
        THEN /\ ops[i].result = "returned"
             /\ ops[i].returned = ops[i].saved
             /\ ops[i].checksum = ops[i].recorded
        ELSE /\ ops[i].result = "ValueError"
             /\ ops[i].returned = None

\* C10 witness: the stored bytes of model 1 were replaced by a well-formed
\* pickle of model 2 after the save, and the load refused them.
C10_Witness ==
    \E i \in LoadsAfterSave :
        /\ ops[i].saved = 1
        /\ ops[i].start_file = Dump(2)
        /\ ops[i].result = "ValueError"

\* C11: a save_model call that fails at any step leaves the registry as it
\* found it: the entry of its name keeps its prior value and still matches
\* the stored model file, so that load_model returns the previously saved
\* model, and the entries of the other names are unaffected.
C11_SaveAllOrNothing ==
    [][ \A i \in Instances :
          ( /\ ops[i].kind = "save" /\ Running(i) /\ ~ops[i].disturbed
            /\ ops'[i].pc = "done" /\ ops'[i].result # "ok"
            /\ ops[i].start_registry[ops[i].name] # None
            /\ Checksum(ops[i].start_file) = ops[i].start_registry[ops[i].name] )
          => ( /\ ~registry_torn'
               /\ registry_file' = ops[i].start_registry
               /\ Checksum(model_files'[ops[i].name]) = registry_file'[ops[i].name]
               /\ Unpickle(model_files'[ops[i].name]) = Unpickle(ops[i].start_file) )
      ]_vars

\* C12: under every interleaving of save_model and load_model calls on one
\* model name, with no failure and no corruption of the files, a load_model
\* call that finds an entry returns a model and never ends with a checksum
\* mismatch or an unreadable file.
C12_LoadNeverSeesMismatch ==
    \A i \in Instances :
        (ops[i].kind = "load" /\ ops[i].pc = "done")
            => ops[i].result \in { "returned", "FileNotFoundError" }

\* C12, second half: once every writer has finished, the entry of the name
\* matches the stored model file.
C12_MatchAfterWriters ==
    ( /\ \A i \in Instances : ~(ops[i].kind = "save" /\ Running(i))
      /\ registry_file["size_classifier_female"] # None )
        => Checksum(model_files["size_classifier_female"]) = registry_file["size_classifier_female"]

\* C13: for a female profile the skirt rule returns waist_cm = body waist
\* + 4 cm and hip_cm = max(body hip + 6 cm, 1.15 x body waist), each
\* strictly greater than the profile's own waist / hip (value_cm is in
\* hundredths of a cm, the profile's fields in tenths).
C13_SkirtRuleAddsEase ==
    ( /\ mrec.called /\ mrec.profile.gender = "F" /\ mrec.garment_code = "girls_skirt"
      /\ mrec.manual_override = None /\ mrec.out.kind = "returned" )
    => /\ mrec.measure_name = "waist_cm"
            => /\ mrec.out.value_cm = 10 * mrec.profile.waist_cm + 400
               /\ mrec.out.value_cm > 10 * mrec.profile.waist_cm
               /\ mrec.out.method_used = "female_skirt_waist_specific"
       /\ mrec.measure_name = "hip_cm"
            => /\ mrec.out.value_cm = Max(10 * mrec.profile.hip_cm + 600,
                                          Round2(mrec.profile.waist_cm * 11500))
               /\ mrec.out.value_cm > 10 * mrec.profile.hip_cm
               /\ mrec.out.method_used = "female_skirt_hip_specific"

\* The skirt hip of a girl whose waist decides it was asked for and returned.
C13_Witness ==
    /\ mrec.called /\ mrec.profile.gender = "F" /\ mrec.garment_code = "girls_skirt"
    /\ mrec.manual_override = None /\ mrec.out.kind = "returned"
    /\ mrec.measure_name = "hip_cm"
    /\ mrec.profile.waist_cm # None /\ mrec.profile.hip_cm # None
    /\ mrec.profile.waist_cm * 115 > 100 * (mrec.profile.hip_cm + 60)
    /\ mrec.out.value_cm > 10 * mrec.profile.hip_cm + 600

\* C14: a prediction whose explanation file cannot be written still returns
\* its result: the recorder does not raise.
C14_LoggingFailureTolerated ==
    (mrec.called /\ ~mrec.logOK) => mrec.out.kind = "returned"

\* C15: whatever the database does, get_sql_recommendation returns a record
\* with size_code among xs, small, medium, large, xl, a confidence above 0,
\* and the fields 'reasoning' and 'source'.
C15_SqlRecommendationInLadder ==
    (rec.called /\ rec.compare_with_sql)
        => LET sql_rec == rec.out.sql_recommendation
           IN  /\ sql_rec.size_code \in { "xs", "small", "medium", "large", "xl" }
               /\ sql_rec.confidence > 0
               /\ { "reasoning", "source" } \subseteq DOMAIN sql_rec
               /\ sql_rec.reasoning # "" /\ sql_rec.source # ""

\* C16: the corpus create_balanced_dataset returns has female and male row
\* counts that differ by at most 5, whether the oversampling stage runs, is
\* skipped or fails.
C16_GenderCountsWithinTolerance ==
    brec.called =>
        /\ brec.gender_counts.F - brec.gender_counts.M <= 5
        /\ brec.gender_counts.M - brec.gender_counts.F <= 5

\* C17: a returned size recommendation is the result of the first tier, in
\* the order ensemble, database size function, BMI rule, age heuristic,
\* that succeeds for the request: the ensemble's whenever the classifier is
\* trained, has a model for the profile and its prediction works, else the
\* size function's whenever the database answers with a size, else the BMI
\* rule's whenever the database can be reached, else the age heuristic's.
C17_FirstSuccessfulTierServes ==
    (rec.called /\ rec.out.kind = "returned") =>
        LET db == rec.db
            functionOK == db.cnx /\ db.fn = "id" /\ db.size_id # 0 /\ db.chart # "error"
        IN  IF rec.trained /\ rec.has_model /\ rec.predictOK
            THEN ServedByEnsemble(rec)
            ELSE /\ ~ServedByEnsemble(rec)
                 /\ rec.out.size_code =
                        IF functionOK THEN DbFunction(rec.profile, db).size_code
                        ELSE IF db.cnx THEN BmiRule(rec.profile).size_code
                        ELSE AgeFallback(rec.profile).size_code

\* C17 without the failing write of the explanation file: the same, for the
\* requests whose first write succeeds.
C17_FirstSuccessfulTierServesWhenLogged ==
    rec.logs[1] => C17_FirstSuccessfulTierServes

\* The tiers a returned recommendation was demoted through: from the
\* ensemble to the rule function, from the size function to the BMI rule,
\* from the BMI rule to the age heuristic.
Demotions(r) ==
    (IF ServedByEnsemble(r) THEN 0 ELSE 1)
    + (IF r.out.sql_recommendation.method \in { "sql_rule_fallback", "age_fallback" } /\ ~ServedByEnsemble(r)
       THEN 1 ELSE 0)
    + (IF r.out.sql_recommendation.method = "age_fallback" /\ ~ServedByEnsemble(r) THEN 1 ELSE 0)

\* The steps of a recommendation that record a failure with its penalty:
\* an impact from -0.2 to -0.1 on a step that is no fit adjustment.
PenaltySteps(out) ==
    { i \in 1..Len(out.steps) :
        /\ out.steps[i].confidence_impact \in -200..-100
        /\ out.steps[i].step_name \notin { "loose_fit_adjustment", "snug_fit_adjustment" } }

\* C18: every demotion from one tier to the next appends an ExplanationStep
\* with the failure reason and a penalty between -0.1 and -0.2, and the
\* confidence returned is never below 0.1.
C18_DemotionsRecorded ==
    (rec.called /\ rec.out.kind = "returned") =>
        /\ Cardinality(PenaltySteps(rec.out)) >= Demotions(rec)
        /\ rec.out.confidence >= 100

\* The tier that produced the size_code of a returned recommendation.
ProducingTier(r) ==
    IF ServedByEnsemble(r) THEN "ensemble" ELSE r.out.sql_recommendation.method

\* C19: the method tag identifies the tier that produced the size_code: two
\* returned recommendations with the same method_used were produced by the
\* same tier (ensemble, size function, BMI rule or age heuristic).
C19_MethodTagIdentifiesTier ==
    ( /\ first.called /\ first.out.kind = "returned"
      /\ rec.called /\ rec.out.kind = "returned"
      /\ first.out.method_used = rec.out.method_used )
        => ProducingTier(first) = ProducingTier(rec)

\* C20: a trained classifier answers with the model of the profile's gender
\* whenever one was trained (ai_female for F, ai_male for M) and with the
\* universal model only when there is none for that gender.
C20_GenderModelPreferred ==
    (rec.called /\ rec.trained /\ ServedByEnsemble(rec)) =>
        rec.out.method_used =
            IF rec.gender_model
            THEN (IF rec.profile.gender = "F" THEN "ai_female" ELSE "ai_male")
            ELSE "ai_universal"

\* The position of the unadjusted best size on the ladder (0: not on it).
LadderIndex(r) ==
    IF Contains(size_order, r.unadjusted.best_size)
    THEN IndexOf(size_order, r.unadjusted.best_size) ELSE 0

\* C21: for an ensemble prediction on the ladder and not at the end the
\* adjustment moves towards, 'loose' returns the next size up and 0.9 times
\* the confidence, 'snug' with age >= 10 the next size down and 0.9 times
\* the confidence; 'snug' with age < 10 and 'standard' return the size_code
\* and the confidence of the unadjusted prediction.
C21_FitPreferenceMovesOneStep ==
    (rec.called /\ ServedByEnsemble(rec) /\ LadderIndex(rec) # 0) =>
        LET i    == LadderIndex(rec)
            fit  == rec.profile.fit_preference
            snug == fit = "snug" /\ rec.profile.age >= 10
        IN  /\ (fit = "loose" /\ i < Len(size_order)) =>
                    /\ rec.out.size_code = size_order[i + 1]
                    /\ rec.out.confidence = (rec.unadjusted.confidence * 9) \div 10
            /\ (snug /\ i > 1) =>
                    /\ rec.out.size_code = size_order[i - 1]
                    /\ rec.out.confidence = (rec.unadjusted.confidence * 9) \div 10
            /\ (fit # "loose" /\ ~snug) =>
                    /\ rec.out.size_code = rec.unadjusted.best_size
                    /\ rec.out.confidence = rec.unadjusted.confidence

\* C21 witness: a snug request of a child under 10 was served by the
\* ensemble and left as predicted.
C21_Witness ==
    /\ rec.called /\ ServedByEnsemble(rec) /\ LadderIndex(rec) > 1
    /\ rec.profile.fit_preference = "snug" /\ rec.profile.age < 10
    /\ rec.out.size_code = rec.unadjusted.best_size

\* C22: an adjustment past an end of the ladder is a no-op: 'loose' on xl
\* and 'snug' (age >= 10) on xs return the size_code and the confidence of
\* the unadjusted prediction.
C22_PastTheEndIsNoOp ==
    ( /\ rec.called /\ ServedByEnsemble(rec)
      /\ \/ rec.profile.fit_preference = "loose" /\ rec.unadjusted.best_size = "xl"
         \/ /\ rec.profile.fit_preference = "snug" /\ rec.profile.age >= 10
            /\ rec.unadjusted.best_size = "xs" )
    => /\ rec.out.size_code = rec.unadjusted.best_size
       /\ rec.out.confidence = rec.unadjusted.confidence

\* The pairs a garment rule covers for a request: the skirt, dupatta and
\* kurta measures with a formula of their own, and the bust and sleeve of a
\* girl's shirt or blazer.
Covered(r) ==
    LET words  == GarmentWords[r.garment_code]
        m      == r.measure_name
        female == r.profile.gender = "F"
    IN  \/ female /\ "skirt" \in words /\ m \in { "waist_cm", "hip_cm", "skirt_length_cm" }
        \/ female /\ "dupatta" \in words /\ "skirt" \notin words /\ m = "dupatta_length_cm"
        \/ /\ r.profile.gender = "M" /\ "kurta" \in words /\ "girls" \notin words
           /\ words \cap { "skirt", "dupatta" } = {} /\ m = "top_length_cm"
        \/ /\ female /\ words \cap { "shirt", "blazer" } # {}
           /\ words \cap { "skirt", "dupatta", "kurta" } = {}
           /\ m \in { "chest", "bust", "sleeve_length" }

RuleMethods ==
    { "female_skirt_waist_specific", "female_skirt_hip_specific", "female_skirt_length_specific",
      "female_dupatta_specific", "male_kurta_specific", "female_shirt_rule", "female_sleeve_rule" }

\* C23: for a pair a garment rule covers, a prediction without override
\* never asks the regression model, whether or not one is trained for the
\* key, and what it returns carries the rule's method tag.
C23_RuleBeatsModel ==
    (mrec.called /\ mrec.manual_override = None /\ Covered(mrec)) =>
        /\ \A i \in 1..Len(mrec.out.tiers) : mrec.out.tiers[i] # "ml"
        /\ mrec.out.kind = "returned" => mrec.out.method_used \in RuleMethods

\* C23 witness: the skirt waist of a girl was returned by the rule while a
\* regression model was stored for the key.
C23_Witness ==
    /\ mrec.called /\ mrec.manual_override = None /\ Covered(mrec) /\ mrec.has_model
    /\ mrec.out.kind = "returned"
    /\ mrec.out.method_used = "female_skirt_waist_specific"
    /\ mrec.out.value_cm = 10 * mrec.profile.waist_cm + 400

\* C24: for a pair no garment rule covers the rule engine returns no value
\* of its own, so that a regression model trained for the key answers.
C24_UncoveredFallsThrough ==
    ( /\ mrec.called /\ mrec.manual_override = None /\ ~Covered(mrec)
      /\ mrec.has_model /\ mrec.out.kind = "returned" )
    => mrec.out.method_used = "ml_random_forest"

\* C25: a prediction served by a regression model has confidence
\* clamp(1 - rmse / 50, 0.1, 0.95) for the rmse stored with the model of
\* its key (rmse in tenths of a cm, confidence in thousandths), hence a
\* confidence within [0.1, 0.95].
C25_ModelConfidenceClamped ==
    (mrec.called /\ mrec.out.kind = "returned" /\ mrec.out.method_used = "ml_random_forest") =>
        LET raw_confidence == 1000 - 2 * mrec.rmse
        IN  /\ mrec.has_model
            /\ mrec.out.confidence = IF raw_confidence < 100 THEN 100
                                     ELSE IF raw_confidence > 950 THEN 950
                                     ELSE raw_confidence
            /\ mrec.out.confidence \in 100..950

\* C25 witness: a model with an rmse of 60 cm answered with confidence 0.1.
C25_Witness ==
    /\ mrec.called /\ mrec.out.kind = "returned" /\ mrec.out.method_used = "ml_random_forest"
    /\ mrec.rmse = 600 /\ mrec.out.confidence = 100

\* The names of a trace's steps, in order.
StepNames(steps) == [ i \in 1..Len(steps) |-> steps[i].step_name ]

IsPrefix(s, t) == Len(s) <= Len(t) /\ \A i \in 1..Len(s) : s[i] = t[i]

\* The traces a size request has built at the points it passes, in the order
\* it passes them: after the SQL baseline, after model selection, after
\* feature extraction, after the base prediction.
SizeCheckpoints(r) ==
    LET c0 == IF r.compare_with_sql THEN << "sql_baseline" >> ELSE << >>
        c1 == c0 \o << "model_selection" >>
        c2 == c1 \o << "feature_extraction" >>
        c3 == c2 \o << "base_prediction" >>
    IN  << c0 >> \o (IF r.trained THEN << c1 >> ELSE << >>)
               \o (IF r.trained /\ r.has_model THEN << c2 >> ELSE << >>)
               \o (IF r.trained /\ r.has_model /\ r.predictOK THEN << c3 >> ELSE << >>)

\* The trace a measurement request has built when it enters the tier that
\* answers it.
MeasureCheckpoint(r) ==
    IF r.manual_override # None THEN << "manual_override" >>
    ELSE IF Contains(r.out.tiers, "gender_specific") THEN << "gender_specific_detection" >>
    ELSE << >>

\* C26: within one decision the explanation steps only grow by appending.
\* The trace a size request ends with (returned, or in hand when it raises)
\* extends the trace of every point the request passed, an answer from the
\* except branch ends with the error_fallback step after all of them, and a
\* baseline step kept in the trace still carries the baseline's confidence;
\* the trace of a measurement request extends the trace it had when the
\* answering tier was entered and holds that tier's own steps after it.
C26_StepsOnlyGrow ==
    /\ rec.called =>
          LET names == StepNames(rec.out.steps)
              cps   == SizeCheckpoints(rec)
          IN  /\ \A i \in 1..Len(cps) : IsPrefix(cps[i], names)
              /\ rec.out.method_used = "sql_error_fallback" =>
                    /\ names[Len(names)] = "error_fallback"
                    /\ Len(names) > Len(cps[Len(cps)])
              /\ rec.compare_with_sql =>
                    rec.out.steps[1] = Step("sql_baseline", rec.out.sql_recommendation.confidence)
    /\ mrec.called =>
          LET cp == MeasureCheckpoint(mrec)
          IN  /\ IsPrefix(cp, mrec.out.steps)
              /\ mrec.manual_override = None => Len(mrec.out.steps) > Len(cp)
              /\ \A i, j \in 1..Len(mrec.out.steps) :
                    mrec.out.steps[i] = mrec.out.steps[j] => i = j

\* A reachable case: the ensemble tier answered, the write of its explanation
\* failed, and the except branch answered from the SQL baseline with a trace
\* of at least six steps.
C26_Witness ==
    /\ rec.called /\ rec.trained /\ rec.has_model /\ rec.predictOK
    /\ ~rec.logs[1]
    /\ rec.out.kind = "returned"
    /\ rec.out.method_used = "sql_error_fallback"
    /\ Len(rec.out.steps) >= 6

\* C27: every explanation logged with a session id, for a size decision and
\* for a measurement decision alike, is what get_session_explanations
\* returns for that session afterwards, in the order logged, and nothing
\* else is returned for it.
C27_LoggedThenReturned ==
    \A l \in DOMAIN session_explanations : \A s \in Sessions \ { "" } :
        get_session_explanations(session_explanations[l], s) = logged[l][s]

\* C28: after create_profile_with_comprehensive_support succeeded for a
\* session id, the service's get_explanation_summary for that id counts at
\* least one explanation, the size recommendation among them.
C28_SummaryAfterCreate ==
    (srec.called /\ srec.success /\ srec.session_id # "") =>
        LET summary == get_explanation_summary(session_explanations["service"], srec.session_id)
        IN  /\ summary.status # "no_explanations"
            /\ summary.total_explanations >= 1
            /\ summary.size_recommendations >= 1

\* Two save_model calls for two different names that overlapped in time have
\* both returned.
BothSaved ==
    /\ \A i \in Instances : ops[i].kind = "save" /\ ops[i].pc = "done" /\ ops[i].result = "ok"
    /\ ops[1].name # ops[2].name

\* C29: under every interleaving of two save_model calls for two different
\* model names on one registry file, once both calls have completed the
\* registry holds an entry for both names, each with the checksum of its
\* model file, so that load_model succeeds for both.
C29_BothEntriesKept ==
    BothSaved =>
        \A i \in Instances :
            /\ registry_file[ops[i].name] # None
            /\ registry_file[ops[i].name] = Checksum(model_files[ops[i].name])

\* C30: after _train_measurement_models returns, the reported models_trained
\* is the number of keys for which this run stored a model and metrics; a
\* key whose training failed is not counted and has no entry from this run.
C30_CountEqualsStored ==
    (trec.called /\ trec.status = "success") =>
        /\ trec.models_trained = Cardinality(trec.stored)
        /\ \A k \in trec.failed : measure_models[k] = NoRegressor
        /\ \A k \in trec.stored : measure_models[k] # NoRegressor
====
